---- MODULE Spec2Model ----
(***************************************************************************)
(* The environment / harness loop of agisdk-js.                            *)
(*                                                                         *)
(*   BrowserEnv  (src/unnamed/part_008)  reset / step / close              *)
(*   executeAction (src/src/REAL/browsergym/core/ActionExecutor.ts)        *)
(*   Harness     (src/unnamed/part_013)  run / runTasks / runSingleTask    *)
(*                                                                         *)
(* Strings that the code splits on '.' (task references, cache file names) *)
(* are kept as the tuple of their dot-free segments: "v2.omnizon-1" is     *)
(* <<"v2", "omnizon-1">>.  Joining with '.' and splitting on '.' are       *)
(* inverse to each other on such tuples, so nothing is lost.               *)
(***************************************************************************)
EXTENDS Integers, Sequences, FiniteSets, TLC

VARIABLES
    env,      \* the fields of one BrowserEnv object
    world,    \* the browser and the task collaborator, as the environment sees them
    ret,      \* outcome of the last reset()/step()/close() call made on env
    calls,    \* number of API calls made so far (bounds the behaviours)
    h,        \* the Harness object and the locals of run/runTasks/runSingleTask
    cache,    \* the results directory: file name (without .json) -> TaskResult
    parse,    \* an action string given to parseAction / executeAction, and the outcome
    ex,       \* one run of extractObservation, await by await
    canon,    \* a task reference given to canonicalizeTaskName, and the outcome
    held,     \* an observation the caller kept, as it was when it was returned
    inStep    \* one call of step(), await by await

vars == <<env, world, ret, calls, h, cache, parse, ex, canon, held, inStep>>

(***************************************************************************)
(* Bounds of the model.                                                    *)
(***************************************************************************)
MaxCalls == 3
MaxPages == 3
MaxTabCalls == 2
MaxFrames == 3
MaxTasks == 2
StepBudget == 2

(***************************************************************************)
(* Small helpers on sequences.                                             *)
(***************************************************************************)
Range(s) == {s[i] : i \in 1..Len(s)}

Remove(s, x) == SelectSeq(s, LAMBDA y : y # x)

Last(s) == s[Len(s)]

IndexOf(s, x) == IF x \in Range(s) THEN CHOOSE i \in 1..Len(s) : s[i] = x ELSE 0

(***************************************************************************)
(* Errors.  A JavaScript Error has a constructor name and a message.       *)
(***************************************************************************)
Err(name, message) == [name |-> name, message |-> message]

NoErr == Err("", "")

NotInitializedMsg == "Environment not initialized. Call reset() first."

(***************************************************************************)
(* Action strings.  An action string is kept with what parseAction finds   *)
(* in it: whether it has the shape name(args), the name and the number of  *)
(* arguments.                                                              *)
(***************************************************************************)
Action(str, shaped, name, nargs) ==
    [str |-> str, shaped |-> shaped, name |-> name, nargs |-> nargs]

ActionNoop == Action("noop()", TRUE, "noop", 0)
ActionClick == Action("click(\"a1\")", TRUE, "click", 1)
ActionClickNoArg == Action("click()", TRUE, "click", 0)
ActionFillOneArg == Action("fill(\"a1\")", TRUE, "fill", 1)
ActionUnknown == Action("fly(\"a1\")", TRUE, "fly", 1)
ActionMalformed == Action("click a1", FALSE, "", 0)
ActionSendMsg == Action("send_msg_to_user(\"done\")", TRUE, "send_msg_to_user", 1)
ActionInfeasible == Action("report_infeasible(\"no\")", TRUE, "report_infeasible", 1)

Actions ==
    { ActionNoop, ActionClick, ActionClickNoArg, ActionFillOneArg, ActionUnknown,
      ActionMalformed, ActionSendMsg, ActionInfeasible }

OperationNames ==
    { "goto", "go_back", "go_forward", "click", "dblclick", "fill", "press",
      "scroll", "hover", "select_option", "send_msg_to_user",
      "report_infeasible", "noop" }

\* the argument-count check of each case of executeAction's switch
MinArgs(name) ==
    CASE name \in {"goto", "click", "dblclick", "hover", "send_msg_to_user",
                   "report_infeasible"} -> 1
      [] name \in {"fill", "press", "scroll", "select_option"} -> 2
      [] OTHER -> 0

ArgCountMessage(name) ==
    CASE name \in {"click", "dblclick"} -> name \o " requires at least 1 argument"
      [] name \in {"goto", "hover", "send_msg_to_user", "report_infeasible"} ->
            name \o " requires 1 argument"
      [] OTHER -> name \o " requires 2 arguments"

(***************************************************************************)
(* parseAction, parseArgs and parseValue of ActionExecutor.ts.  A string   *)
(* is the sequence of its characters.                                      *)
(***************************************************************************)
Letters ==
    { "E", "F", "N", "a", "b", "c", "d", "e", "f", "g", "h", "i", "k", "l", "m", "n", "o", "p", "r", "s", "t", "u", "v", "w", "y" }

Digits == { "0", "1", "2", "3", "5" }

ActionStrings ==
    {
      <<"c", "l", "i", "c", "k", "(", "\"", "a", "1", "\"", ")">>,  \* click("a1")
      <<"c", "l", "i", "c", "k", "(", "'", "a", "1", "'", ")">>,  \* click('a1')
      <<"c", "l", "i", "c", "k", " ", "(", "\"", "a", "1", "\"", ")">>,  \* click ("a1")
      <<"d", "b", "l", "c", "l", "i", "c", "k", "(", "\"", "a", "1", "\"", ")">>,  \* dblclick("a1")
      <<"h", "o", "v", "e", "r", "(", "a", "1", ")">>,  \* hover(a1)
      <<"g", "o", "t", "o", "(", "\"", "u", "\"", ")">>,  \* goto("u")
      <<"g", "o", "_", "b", "a", "c", "k", "(", ")">>,  \* go_back()
      <<"g", "o", "_", "f", "o", "r", "w", "a", "r", "d", "(", ")">>,  \* go_forward()
      <<"n", "o", "o", "p", "(", ")">>,  \* noop()
      <<"n", "o", "o", "p", "(", "5", "0", "0", ")">>,  \* noop(500)
      <<"f", "i", "l", "l", "(", "\"", "i", "n", "1", "\"", ",", "\"", "a", ",", " ", "b", "\"", ")">>,  \* fill("in1","a, b")
      <<"f", "i", "l", "l", "(", "\"", "i", "n", "1", "\"", ",", " ", "\"", "a", "(", "b", "]", "\"", ")">>,  \* fill("in1", "a(b]")
      <<"f", "i", "l", "l", "(", "'", "i", "n", "1", "'", ",", " ", "'", "i", "t", "\\", "'", "s", "'", ")">>,  \* fill('in1', 'it\'s')
      <<"f", "i", "l", "l", "(", "\"", "i", "n", "1", "\"", ",", " ", "\"", "s", "a", "y", " ", "\\", "\"", "h", "i", "\\", "\"", "\"", ")">>,  \* fill("in1", "say \"hi\"")
      <<"f", "i", "l", "l", "(", "\"", "a", "\\", "\\", "\"", ",", "\"", "b", "\"", ")">>,  \* fill("a\\","b")
      <<"f", "i", "l", "l", "(", "\"", "i", "n", "1", "\"", ",", " ", "\"", "0", "0", "1", "2", "3", "\"", ")">>,  \* fill("in1", "00123")
      <<"f", "i", "l", "l", "(", "\"", "i", "n", "1", "\"", ",", " ", "0", "0", "1", "2", "3", ")">>,  \* fill("in1", 00123)
      <<"s", "c", "r", "o", "l", "l", "(", "\"", "a", "1", "\"", ",", " ", "-", "1", ".", "5", "0", ")">>,  \* scroll("a1", -1.50)
      <<"p", "r", "e", "s", "s", "(", "\"", "a", "1", "\"", ",", " ", "\"", "E", "n", "t", "e", "r", "\"", ")">>,  \* press("a1", "Enter")
      <<"p", "r", "e", "s", "s", "(", "\"", "a", "1", "\"", ",", " ", "t", "r", "u", "e", ")">>,  \* press("a1", true)
      <<"p", "r", "e", "s", "s", "(", "\"", "a", "1", "\"", ",", " ", "F", "a", "l", "s", "e", ")">>,  \* press("a1", False)
      <<"s", "e", "l", "e", "c", "t", "_", "o", "p", "t", "i", "o", "n", "(", "\"", "a", "1", "\"", ",", " ", "[", "1", ",", " ", "2", "]", ")">>,  \* select_option("a1", [1, 2])
      <<"s", "e", "l", "e", "c", "t", "_", "o", "p", "t", "i", "o", "n", "(", "\"", "a", "1", "\"", ",", " ", "{", "k", ":", " ", "\"", "v", ",", " ", "w", "\"", "}", ")">>,  \* select_option("a1", {k: "v, w"})
      <<"s", "e", "l", "e", "c", "t", "_", "o", "p", "t", "i", "o", "n", "(", "\"", "a", "1", "\"", ",", " ", "N", "o", "n", "e", ")">>,  \* select_option("a1", None)
      <<"s", "e", "l", "e", "c", "t", "_", "o", "p", "t", "i", "o", "n", "(", "\"", "a", "1", "\"", ",", " ", "\"", "n", "u", "l", "l", "\"", ")">>,  \* select_option("a1", "null")
      <<"s", "e", "n", "d", "_", "m", "s", "g", "_", "t", "o", "_", "u", "s", "e", "r", "(", "\"", "h", "i", ",", " ", "t", "h", "e", "r", "e", "\"", ")">>,  \* send_msg_to_user("hi, there")
      <<"r", "e", "p", "o", "r", "t", "_", "i", "n", "f", "e", "a", "s", "i", "b", "l", "e", "(", "'", "n", "o", "'", ")">>,  \* report_infeasible('no')
      <<"g", "o", "t", "o", "(", ")">>,  \* goto()
      <<"c", "l", "i", "c", "k", "(", ")">>,  \* click()
      <<"d", "b", "l", "c", "l", "i", "c", "k", "(", ")">>,  \* dblclick()
      <<"h", "o", "v", "e", "r", "(", ")">>,  \* hover()
      <<"s", "e", "n", "d", "_", "m", "s", "g", "_", "t", "o", "_", "u", "s", "e", "r", "(", ")">>,  \* send_msg_to_user()
      <<"r", "e", "p", "o", "r", "t", "_", "i", "n", "f", "e", "a", "s", "i", "b", "l", "e", "(", ")">>,  \* report_infeasible()
      <<"f", "i", "l", "l", "(", "\"", "i", "n", "1", "\"", ")">>,  \* fill("in1")
      <<"p", "r", "e", "s", "s", "(", "\"", "a", "1", "\"", ")">>,  \* press("a1")
      <<"s", "c", "r", "o", "l", "l", "(", "\"", "a", "1", "\"", ")">>,  \* scroll("a1")
      <<"s", "e", "l", "e", "c", "t", "_", "o", "p", "t", "i", "o", "n", "(", "\"", "a", "1", "\"", ")">>,  \* select_option("a1")
      <<"f", "i", "l", "l", "(", "\"", "i", "n", "1", "\"", ",", ")">>,  \* fill("in1",)
      <<"f", "l", "y", "(", "\"", "a", "1", "\"", ")">>,  \* fly("a1")
      <<"c", "l", "i", "c", "k", " ", "a", "1">>,  \* click a1
      <<"c", "l", "i", "c", "k", "(", "\"", "a", "1", "\"">>,  \* click("a1"
      <<"(", "\"", "a", "1", "\"", ")">>,  \* ("a1")
      <<"c", "l", "i", "c", "k", "(", "\"", "a", "1", "\"", ")", " ", "n", "o", "w">>,  \* click("a1") now
      <<>>   \* (the empty string)
    }

\* \s and \w on the characters that occur
White == {" ", "\n"}

IsWord(c) == c \in Letters \cup Digits \cup {"_"}

\* the backquote; a TLA+ string cannot hold one, so it is written ^, which
\* like it is neither a word character nor white space
BackQuote == "^"

Fence == <<BackQuote, BackQuote, BackQuote>>

RECURSIVE TrimStart(_)
TrimStart(s) == IF s # <<>> /\ Head(s) \in White THEN TrimStart(Tail(s)) ELSE s

RECURSIVE TrimEnd(_)
TrimEnd(s) ==
    IF s # <<>> /\ Last(s) \in White THEN TrimEnd(SubSeq(s, 1, Len(s) - 1)) ELSE s

\* String.prototype.trim
Trim(s) == TrimEnd(TrimStart(s))

StartsWith(s, p) == Len(s) >= Len(p) /\ SubSeq(s, 1, Len(p)) = p

EndsWith(s, p) == Len(s) >= Len(p) /\ SubSeq(s, Len(s) - Len(p) + 1, Len(s)) = p

Drop(s, n) == SubSeq(s, n + 1, Len(s))

\* the length of the longest run of word characters s starts with: \w*
RECURSIVE WordRun(_)
WordRun(s) == IF s # <<>> /\ IsWord(Head(s)) THEN 1 + WordRun(Tail(s)) ELSE 0

\* the first replace of parseAction, on a string that starts with the fence:
\* the three fence characters, the word characters after them and one line
\* break are removed
StripOpeningFence(s) ==
    LET a == Drop(s, 3)
        b == Drop(a, WordRun(a))
    IN  IF b # <<>> /\ Head(b) = "\n" THEN Tail(b) ELSE b

\* the second replace: a fence at the very end, and one line break before
\* it, are removed
StripClosingFence(s) ==
    IF EndsWith(s, Fence)
    THEN LET a == SubSeq(s, 1, Len(s) - 3)
         IN  IF a # <<>> /\ Last(a) = "\n" THEN SubSeq(a, 1, Len(a) - 1) ELSE a
    ELSE s

\* the first lines of parseAction: trim, and the fence removed if present
Cleaned(actionString) ==
    LET c == Trim(actionString)
    IN  IF StartsWith(c, Fence)
        THEN Trim(StripClosingFence(StripOpeningFence(c)))
        ELSE c

\* the match of parseAction: a name of word characters, white space, and the
\* arguments between the first '(' and a ')' that ends the string; the
\* arguments hold no line break
MatchCall(c) ==
    LET n == WordRun(c)
        t == TrimEnd(TrimStart(Drop(c, n)))
        inner == SubSeq(t, 2, Len(t) - 1)
    IN  IF /\ n >= 1
           /\ Len(t) >= 2
           /\ Head(t) = "("
           /\ Last(t) = ")"
           /\ "\n" \notin Range(inner)
        THEN [ok |-> TRUE, name |-> SubSeq(c, 1, n), argsString |-> inner]
        ELSE [ok |-> FALSE, name |-> <<>>, argsString |-> <<>>]

\* a value parseValue returns: a string (text), a number (num: whether it is
\* negative, its whole part, and its fraction digits without trailing
\* zeros), or the literal true, false or null
StringValue(text) == [type |-> "string", text |-> text, num |-> <<>>, lit |-> ""]

NumberValue(negative, whole, fraction) ==
    [type |-> "number", text |-> <<>>, num |-> <<negative, whole, fraction>>,
     lit |-> ""]

LiteralValue(type, lit) == [type |-> type, text |-> <<>>, num |-> <<>>, lit |-> lit]

DigitValue(c) ==
    CASE c = "0" -> 0 [] c = "1" -> 1 [] c = "2" -> 2 [] c = "3" -> 3
      [] c = "4" -> 4 [] c = "5" -> 5 [] c = "6" -> 6 [] c = "7" -> 7
      [] c = "8" -> 8 [] OTHER -> 9

\* parseInt(digits, 10)
RECURSIVE Decimal(_)
Decimal(ds) ==
    IF ds = <<>> THEN 0
    ELSE 10 * Decimal(SubSeq(ds, 1, Len(ds) - 1)) + DigitValue(Last(ds))

RECURSIVE StripZeros(_)
StripZeros(ds) ==
    IF ds # <<>> /\ Last(ds) = "0" THEN StripZeros(SubSeq(ds, 1, Len(ds) - 1)) ELSE ds

AllDigits(s) == s # <<>> /\ \A i \in 1..Len(s) : s[i] \in Digits

Unsigned(v) == IF v # <<>> /\ Head(v) = "-" THEN Tail(v) ELSE v

\* /^-?\d+$/
IsInteger(v) == AllDigits(Unsigned(v))

\* /^-?\d+\.\d+$/
IsFloat(v) ==
    LET u == Unsigned(v)
    IN  \E i \in 1..Len(u) :
           /\ u[i] = "."
           /\ AllDigits(SubSeq(u, 1, i - 1))
           /\ AllDigits(SubSeq(u, i + 1, Len(u)))

\* value.startsWith('"') && value.endsWith('"'), or the same with '
IsQuoted(v) ==
    /\ v # <<>>
    /\ \/ Head(v) = "\"" /\ Last(v) = "\""
       \/ Head(v) = "'" /\ Last(v) = "'"

\* .replace(/\\q/g, q): every backslash followed by the quote q becomes q
RECURSIVE Unescape(_, _)
Unescape(s, q) ==
    IF s = <<>> THEN <<>>
    ELSE IF Len(s) >= 2 /\ s[1] = "\\" /\ s[2] = q
    THEN <<q>> \o Unescape(Drop(s, 2), q)
    ELSE <<Head(s)>> \o Unescape(Tail(s), q)

\* the number a token that passed one of the two number tests stands for
ParsedNumber(v) ==
    LET u == Unsigned(v)
        dot == IF "." \in Range(u) THEN IndexOf(u, ".") ELSE Len(u) + 1
    IN  NumberValue(v # u, Decimal(SubSeq(u, 1, dot - 1)),
                    StripZeros(SubSeq(u, dot + 1, Len(u))))

\* parseValue with the quotes taken off before the other tests are made
parseValueCoercesContent(value) ==
    LET q == Trim(value)
        v == IF IsQuoted(q) THEN SubSeq(q, 2, Len(q) - 1) ELSE q
    IN  IF IsInteger(v) \/ IsFloat(v)
        THEN ParsedNumber(v)
        ELSE IF v \in {<<"T", "r", "u", "e">>, <<"t", "r", "u", "e">>}
        THEN LiteralValue("boolean", "true")
        ELSE IF v \in {<<"F", "a", "l", "s", "e">>, <<"f", "a", "l", "s", "e">>}
        THEN LiteralValue("boolean", "false")
        ELSE IF v \in {<<"N", "o", "n", "e">>, <<"n", "u", "l", "l">>}
        THEN LiteralValue("null", "null")
        ELSE StringValue(v)

parseValue(value) ==
    LET v == Trim(value)
    IN  IF IsQuoted(v)
        THEN StringValue(Unescape(Unescape(SubSeq(v, 2, Len(v) - 1), "\""), "'"))
        ELSE IF IsInteger(v) \/ IsFloat(v)
        THEN ParsedNumber(v)
        ELSE IF v \in {<<"T", "r", "u", "e">>, <<"t", "r", "u", "e">>}
        THEN LiteralValue("boolean", "true")
        ELSE IF v \in {<<"F", "a", "l", "s", "e">>, <<"f", "a", "l", "s", "e">>}
        THEN LiteralValue("boolean", "false")
        ELSE IF v \in {<<"N", "o", "n", "e">>, <<"n", "u", "l", "l">>}
        THEN LiteralValue("null", "null")
        ELSE StringValue(v)

\* the locals of parseArgs; tokens and splits record what was handed to
\* parseValue and the positions of the commas that separated arguments
ArgsStart ==
    [ current |-> <<>>, depth |-> 0, inString |-> FALSE, stringChar |-> "",
      args |-> <<>>, tokens |-> <<>>, splits |-> {} ]

Push(st) ==
    [st EXCEPT !.args = Append(@, parseValue(Trim(st.current))),
               !.tokens = Append(@, Trim(st.current)),
               !.current = <<>>]

\* one turn of the while loop of parseArgs, on the character at i
ScanChar(s, i, st) ==
    LET char == s[i]
        before == IF i > 1 THEN s[i - 1] ELSE ""
    IN  IF ~st.inString
        THEN IF char \in {"\"", "'"}
             THEN [st EXCEPT !.inString = TRUE, !.stringChar = char,
                             !.current = Append(@, char)]
             ELSE IF char \in {"(", "[", "{"}
             THEN [st EXCEPT !.depth = @ + 1, !.current = Append(@, char)]
             ELSE IF char \in {")", "]", "}"}
             THEN [st EXCEPT !.depth = @ - 1, !.current = Append(@, char)]
             ELSE IF char = "," /\ st.depth = 0
             THEN [Push(st) EXCEPT !.splits = @ \cup {i}]
             ELSE [st EXCEPT !.current = Append(@, char)]
        ELSE [st EXCEPT !.current = Append(@, char),
                        !.inString = ~(char = st.stringChar /\ before # "\\")]

RECURSIVE ScanArgs(_, _, _)
ScanArgs(s, i, st) ==
    IF i > Len(s) THEN st ELSE ScanArgs(s, i + 1, ScanChar(s, i, st))

parseArgs(argsString) ==
    IF Trim(argsString) = <<>>
    THEN ArgsStart
    ELSE LET st == ScanArgs(argsString, 1, ArgsStart)
         IN  IF Trim(st.current) # <<>> THEN Push(st) ELSE st

\* what parseAction returns, or that it threw 'Invalid action format'
Parsed(ok, name, argsString, p) ==
    [ ok |-> ok, name |-> name, argsString |-> argsString, args |-> p.args,
      tokens |-> p.tokens, splits |-> p.splits ]

parseAction(actionString) ==
    LET m == MatchCall(Cleaned(actionString))
    IN  IF m.ok
        THEN Parsed(TRUE, m.name, m.argsString, parseArgs(m.argsString))
        ELSE Parsed(FALSE, <<>>, <<>>, ArgsStart)

\* the characters of s as one string
RECURSIVE Join(_)
Join(s) == IF s = <<>> THEN "" ELSE Head(s) \o Join(Tail(s))

\* an action string with what parseAction finds in it
ActionOf(actionString) ==
    LET p == parseAction(actionString)
    IN  Action(Join(actionString), p.ok, Join(p.name), Len(p.args))

(***************************************************************************)
(* executeAction(action, page).  pageFails: the browser operation the      *)
(* action maps to rejects (element missing, timeout, page gone).           *)
(* Result: whether a page operation was invoked, the error thrown (NoErr   *)
(* when it resolved) and the message the page handed to the exposed        *)
(* browsergym_send_message / browsergym_report_infeasible functions.       *)
(***************************************************************************)
ExecResult(invoked, err, role) == [invoked |-> invoked, err |-> err, role |-> role]

\* executeAction without the default case of its switch: an operation it
\* does not know is skipped instead of rejected
executeActionSkipsUnknown(a, pageFails) ==
    IF ~a.shaped
    THEN ExecResult(FALSE, Err("Error", "Invalid action format: " \o a.str), "")
    ELSE IF a.name \notin OperationNames
    THEN ExecResult(FALSE, NoErr, "")
    ELSE IF a.nargs < MinArgs(a.name)
    THEN ExecResult(FALSE, Err("Error", ArgCountMessage(a.name)), "")
    ELSE IF pageFails
    THEN ExecResult(TRUE, Err("TimeoutError", "Timeout 500ms exceeded."), "")
    ELSE ExecResult(TRUE, NoErr, "")

\* executeAction without the argument-count checks of its cases
executeActionNoArgCheck(a, pageFails) ==
    IF ~a.shaped
    THEN ExecResult(FALSE, Err("Error", "Invalid action format: " \o a.str), "")
    ELSE IF a.name \notin OperationNames
    THEN ExecResult(FALSE, Err("Error", "Unknown action: " \o a.name), "")
    ELSE IF pageFails
    THEN ExecResult(TRUE, Err("TimeoutError", "Timeout 500ms exceeded."), "")
    ELSE ExecResult(TRUE, NoErr,
                    CASE a.name = "send_msg_to_user" -> "assistant"
                      [] a.name = "report_infeasible" -> "infeasible"
                      [] OTHER -> "")

executeAction(a, pageFails) ==
    IF ~a.shaped
    THEN ExecResult(FALSE, Err("Error", "Invalid action format: " \o a.str), "")
    ELSE IF a.name \notin OperationNames
    THEN ExecResult(FALSE, Err("Error", "Unknown action: " \o a.name), "")
    ELSE IF a.nargs < MinArgs(a.name)
    THEN ExecResult(FALSE, Err("Error", ArgCountMessage(a.name)), "")
    ELSE IF pageFails
    THEN ExecResult(TRUE, Err("TimeoutError", "Timeout 500ms exceeded."), "")
    ELSE ExecResult(TRUE, NoErr,
                    CASE a.name = "send_msg_to_user" -> "assistant"
                      [] a.name = "report_infeasible" -> "infeasible"
                      [] OTHER -> "")

(***************************************************************************)
(* BrowserEnv: the object after its constructor, and the browser before    *)
(* any launch.                                                             *)
(***************************************************************************)
Greeting ==
    "Hi! I am your UI assistant, I can perform web tasks for you. What can I help you with?"

Msg(role, message) == [role |-> role, message |-> message]

\* useHtml, useAxtree, useScreenshot: the defaults of the constructor
EnvInit ==
    [ browser |-> FALSE, context |-> FALSE, page |-> 0, cdpSession |-> FALSE,
      task |-> 0, chatMessages |-> <<>>, goalObject |-> <<>>,
      lastAction |-> "", lastActionError |-> "", pageHistory |-> <<>>,
      useHtml |-> FALSE, useAxtree |-> TRUE, useScreenshot |-> TRUE ]

\* pages: context.pages(), in creation order; exposed: the page on which reset
\* installed browsergym_send_message / browsergym_report_infeasible;
\* cdpPage: the page the capture session is attached to; live: browser
\* processes launched and not closed; validates, pageOps: calls of
\* task.validate and of browser operations made by executeAction.
WorldInit ==
    [ pages |-> <<>>, exposed |-> 0, cdpPage |-> 0, live |-> 0,
      validates |-> 0, pageOps |-> 0 ]

\* what each capture yields when it is disabled
NeutralValue(capture) == IF capture = "screenshot" THEN "Buffer(0)" ELSE "{}"

NoObs ==
    [ defined |-> FALSE, chat_messages |-> <<>>, last_action |-> "",
      last_action_error |-> "", open_pages |-> <<>>, active_page |-> 0,
      active_page_index |-> 0, dom_object |-> NeutralValue("dom"),
      axtree_object |-> NeutralValue("axtree"),
      screenshot |-> NeutralValue("screenshot") ]

\* what a call was given and did on the way, as its collaborators saw it:
\* the action handed to executeAction, whether the browser rejected the
\* operation, whether task.validate was called, threw, and the done it
\* returned with its message, and whether the capture of the observation
\* failed; whether
\* activePageCheck found no tab open, and the tabs it dropped from the
\* history; the requests extractObservation sent, and those the browser was
\* set to reject;
\* the stages close() attempted and those that threw; the task and the goal
\* parts of a reset() that returned
NoTrace ==
    [ executed |-> FALSE, action |-> "", pageRejects |-> FALSE,
      validated |-> FALSE, valThrew |-> FALSE, valDone |-> FALSE,
      valMessage |-> "",
      captureFailed |-> FALSE, recovered |-> FALSE, dropped |-> {},
      requests |-> {}, rejected |-> {}, failed |-> FALSE,
      attempted |-> {}, stageFailed |-> {}, task |-> 0, goal |-> <<>> ]

\* outcome of one call: kind is "return" or "raise"
Returned(call, obs, reward, done, info, trace) ==
    [ call |-> call, kind |-> "return", error |-> "", obs |-> obs,
      reward |-> reward, terminated |-> done, truncated |-> FALSE, info |-> info,
      trace |-> trace ]

Raised(call, message, trace) ==
    [ call |-> call, kind |-> "raise", error |-> message, obs |-> NoObs,
      reward |-> 0, terminated |-> FALSE, truncated |-> FALSE, info |-> "",
      trace |-> trace ]

NoCall == Returned("none", NoObs, 0, FALSE, "", NoTrace)

Out(e, w, r) == [e |-> e, w |-> w, r |-> r]

(***************************************************************************)
(* BrowserEnv.close().  fails: the teardown stages that throw.  Every      *)
(* stage is guarded on its own, so close() itself never throws; this.task  *)
(* is not cleared.                                                         *)
(***************************************************************************)
CloseStages == {"teardown", "detach", "context", "browser"}

\* the stages whose guard (this.task, this.cdpSession, this.context,
\* this.browser) is true
StagesDue(e) ==
    (IF e.task # 0 THEN {"teardown"} ELSE {})
        \cup (IF e.cdpSession THEN {"detach"} ELSE {})
        \cup (IF e.context THEN {"context"} ELSE {})
        \cup (IF e.browser THEN {"browser"} ELSE {})

\* close() without the try/catch around its stages: the first stage that
\* throws ends it
closeStopsAtFailure(e, w, fails) ==
    LET e1 == [e EXCEPT !.cdpSession = FALSE, !.context = FALSE, !.browser = FALSE,
                        !.page = 0, !.pageHistory = <<>>]
        w1 == [w EXCEPT !.live = IF e.browser THEN @ - 1 ELSE @,
                        !.pages = <<>>, !.exposed = 0, !.cdpPage = 0]
    IN  IF StagesDue(e) \cap fails # {}
        THEN Out(e, w, Raised("close", "teardown failed",
                              [NoTrace EXCEPT !.stageFailed = StagesDue(e) \cap fails]))
        ELSE Out(e1, w1, Returned("close", NoObs, 0, FALSE, "",
                                  [NoTrace EXCEPT !.attempted = StagesDue(e)]))

\* close() that leaves the browser open
closeLeavesBrowser(e, w, fails) ==
    LET e1 == [e EXCEPT !.cdpSession = FALSE, !.context = FALSE, !.browser = FALSE,
                        !.page = 0, !.pageHistory = <<>>]
        w1 == [w EXCEPT !.pages = <<>>, !.exposed = 0, !.cdpPage = 0]
    IN  Out(e1, w1, Returned("close", NoObs, 0, FALSE, "",
                             [NoTrace EXCEPT !.attempted = StagesDue(e) \ {"browser"},
                                             !.stageFailed =
                                                 (StagesDue(e) \ {"browser"}) \cap fails]))

close(e, w, fails) ==
    LET e1 == [e EXCEPT !.cdpSession = FALSE, !.context = FALSE, !.browser = FALSE,
                        !.page = 0, !.pageHistory = <<>>]
        w1 == [w EXCEPT !.live = IF e.browser /\ "browser" \notin fails
                                 THEN @ - 1 ELSE @,
                        !.pages = <<>>, !.exposed = 0, !.cdpPage = 0]
    IN  Out(e1, w1, Returned("close", NoObs, 0, FALSE, "",
                             [NoTrace EXCEPT !.attempted = StagesDue(e),
                                             !.stageFailed = StagesDue(e) \cap fails]))

(***************************************************************************)
(* BrowserEnv.activePageCheck().                                           *)
(***************************************************************************)
FreshPage(e, w) ==
    CHOOSE p \in 1..(MaxPages + MaxCalls + 1) :
        /\ p \notin Range(w.pages) \cup Range(e.pageHistory) \cup {e.page}
        /\ \A q \in 1..(p - 1) :
              q \in Range(w.pages) \cup Range(e.pageHistory) \cup {e.page}

\* Map.set(page, null): a key already present keeps its place
HistorySet(hist, p) == IF p \in Range(hist) THEN hist ELSE Append(hist, p)

RECURSIVE FallBackOldestFirst(_, _, _)
\* the while loop taking the first key of the history, the tab activated
\* longest ago
FallBackOldestFirst(page, hist, pages) ==
    IF page # 0 /\ page \notin Range(pages)
    THEN LET h1 == Remove(hist, page)
         IN  IF Len(h1) > 0
             THEN FallBackOldestFirst(Head(h1), h1, pages)
             ELSE FallBackOldestFirst(pages[1], HistorySet(h1, pages[1]), pages)
    ELSE [page |-> page, hist |-> hist]

RECURSIVE FallBack(_, _, _)
\* the while loop: while the active page is closed, drop it from the history
\* and take the last page of the history, or the first open page
FallBack(page, hist, pages) ==
    IF page # 0 /\ page \notin Range(pages)
    THEN LET h1 == Remove(hist, page)
         IN  IF Len(h1) > 0
             THEN FallBack(Last(h1), h1, pages)
             ELSE FallBack(pages[1], HistorySet(h1, pages[1]), pages)
    ELSE [page |-> page, hist |-> hist]

activePageCheck(e, w) ==
    IF ~e.context
    THEN Out(e, w, FALSE)
    ELSE IF Len(w.pages) = 0
    THEN LET p == FreshPage(e, w)
         IN  Out([e EXCEPT !.page = p, !.pageHistory = HistorySet(@, p)],
                 [w EXCEPT !.pages = <<p>>], FALSE)
    ELSE LET f == FallBack(e.page, e.pageHistory, w.pages)
             valid == f.page # 0 /\ f.page \in Range(w.pages)
             p == IF valid THEN f.page ELSE w.pages[1]
             hist == IF valid THEN f.hist ELSE HistorySet(f.hist, p)
         IN  Out([e EXCEPT !.page = p, !.pageHistory = hist], w,
                 p \notin Range(w.pages))

(***************************************************************************)
(* extractObservation(page, cdpSession, ..., useHtml, useAxtree,            *)
(* useScreenshot).  The requests it makes: "mark" and "unmark" are          *)
(* evaluated in the page, "dom", "axtree" and "screenshot" are sent on the  *)
(* capture session.  failing: the requests the browser rejects when asked.  *)
(* The capture session stays attached to the tab reset() created; once     *)
(* that tab is closed the session is closed and every send on it rejects.  *)
(***************************************************************************)
Captures == {"dom", "axtree", "screenshot"}

CaptureRequests == {"mark", "unmark"} \cup Captures

Enabled(e) ==
    (IF e.useHtml THEN {"dom"} ELSE {})
        \cup (IF e.useAxtree THEN {"axtree"} ELSE {})
        \cup (IF e.useScreenshot THEN {"screenshot"} ELSE {})

CaptureValue(capture) ==
    CASE capture = "dom" -> "snapshot"
      [] capture = "axtree" -> "tree"
      [] OTHER -> "png"

\* pages.indexOf(page), counted from 0; -1 when the page is not among them
PageIndex(pages, p) == IndexOf(pages, p) - 1

Observe(e, w) ==
    [ defined |-> TRUE, chat_messages |-> e.chatMessages,
      last_action |-> e.lastAction, last_action_error |-> e.lastActionError,
      open_pages |-> w.pages, active_page |-> e.page,
      active_page_index |-> PageIndex(w.pages, e.page),
      dom_object |-> IF e.useHtml THEN CaptureValue("dom") ELSE NeutralValue("dom"),
      axtree_object |-> IF e.useAxtree THEN CaptureValue("axtree")
                        ELSE NeutralValue("axtree"),
      screenshot |-> IF e.useScreenshot THEN CaptureValue("screenshot")
                     ELSE NeutralValue("screenshot") ]

SessionClosed(w) == w.cdpPage \notin Range(w.pages)

\* extractObservation with the three captures sent whatever the flags are
extractObservationSendsAll(e, w, failing) ==
    LET rejected == failing \cup (IF SessionClosed(w) THEN Captures ELSE {})
    IN  IF "mark" \in rejected
        THEN [ok |-> FALSE, error |-> "Protocol error", obs |-> NoObs,
              sent |-> {"mark"}]
        ELSE IF Captures \cap rejected # {}
        THEN [ok |-> FALSE, error |-> "Protocol error", obs |-> NoObs,
              sent |-> {"mark"} \cup Captures]
        ELSE IF "unmark" \in rejected
        THEN [ok |-> FALSE, error |-> "Protocol error", obs |-> NoObs,
              sent |-> CaptureRequests]
        ELSE [ok |-> TRUE, error |-> "", obs |-> Observe(e, w),
              sent |-> CaptureRequests]

extractObservation(e, w, failing) ==
    LET rejected == failing \cup (IF SessionClosed(w) THEN Captures ELSE {})
    IN  IF "mark" \in rejected
        THEN [ok |-> FALSE, error |-> "Protocol error", obs |-> NoObs,
              sent |-> {"mark"}]
        ELSE IF Enabled(e) \cap rejected # {}
        THEN [ok |-> FALSE, error |-> "Protocol error", obs |-> NoObs,
              sent |-> {"mark"} \cup Enabled(e)]
        ELSE IF "unmark" \in rejected
        THEN [ok |-> FALSE, error |-> "Protocol error", obs |-> NoObs,
              sent |-> {"mark", "unmark"} \cup Enabled(e)]
        ELSE [ok |-> TRUE, error |-> "", obs |-> Observe(e, w),
              sent |-> {"mark", "unmark"} \cup Enabled(e)]

(***************************************************************************)
(* BrowserEnv.getObservation().  captureFails: the browser rejects every   *)
(* request extractObservation makes.                                       *)
(***************************************************************************)
getObservation(e, w, captureFails) ==
    IF e.page = 0 \/ ~e.cdpSession
    THEN [ok |-> FALSE, error |-> "Page or CDP session not initialized",
          obs |-> NoObs, sent |-> {}]
    ELSE extractObservation(e, w, IF captureFails THEN CaptureRequests ELSE {})

(***************************************************************************)
(* BrowserEnv.reset(task).  failAt: the await that rejects, if any.        *)
(* goal: what task.setup returns as the goal.                              *)
(***************************************************************************)
Goal(kind, parts) == [kind |-> kind, parts |-> parts]

Part(type, text) == [type |-> type, text |-> text]

Goals ==
    { Goal("string", <<Part("text", "buy milk")>>),
      Goal("array", <<Part("text", "buy milk"), Part("image_url", "http://img")>>),
      Goal("object", <<>>) }

\* the goal messages with the image parts left out
RECURSIVE GoalMessagesTextOnly(_)
GoalMessagesTextOnly(parts) ==
    IF parts = <<>>
    THEN <<>>
    ELSE LET g == Head(parts)
         IN  (IF g.type = "text" THEN <<Msg("user", g.text)>> ELSE <<>>)
                 \o GoalMessagesTextOnly(Tail(parts))

\* one chat message per goal part: role user for text, user_image for an image
RECURSIVE GoalMessages(_)
GoalMessages(parts) ==
    IF parts = <<>>
    THEN <<>>
    ELSE LET g == Head(parts)
         IN  (IF g.type = "text" THEN <<Msg("user", g.text)>>
              ELSE IF g.type = "image_url" THEN <<Msg("user_image", g.text)>>
              ELSE <<>>) \o GoalMessages(Tail(parts))

ResetFailures == {"none", "launch", "setup", "capture"}

\* with context.newPage() rejecting: browser and context are there, no page
TabResetFailures == ResetFailures \cup {"newPage"}

reset(e, w, task, goal, failAt, fails) ==
    LET c == close(e, w, fails)
        \* chromium.launch, newContext, setupPageTracking, newPage,
        \* exposeFunction, newCDPSession; then this.task = task
        e1 == [c.e EXCEPT !.browser = TRUE, !.context = TRUE, !.page = 1,
                          !.pageHistory = <<1>>, !.cdpSession = TRUE,
                          !.task = task]
        w1 == [c.w EXCEPT !.live = @ + 1, !.pages = <<1>>, !.exposed = 1,
                          !.cdpPage = 1]
        e2 == [e1 EXCEPT !.goalObject = goal.parts,
                         !.chatMessages =
                             <<Msg("assistant", Greeting)>> \o GoalMessages(goal.parts)]
        a == activePageCheck(e2, w1)
        e3 == [a.e EXCEPT !.lastAction = "", !.lastActionError = ""]
        o == getObservation(e3, a.w, failAt = "capture")
        t == [NoTrace EXCEPT !.attempted = c.r.trace.attempted,
                             !.stageFailed = c.r.trace.stageFailed]
    IN  IF failAt = "launch"
        THEN Out(c.e, c.w, Raised("reset", "Failed to launch browser", t))
        ELSE IF failAt = "newPage"
        THEN Out([c.e EXCEPT !.browser = TRUE, !.context = TRUE],
                 [c.w EXCEPT !.live = @ + 1],
                 Raised("reset", "Failed to open a page", t))
        ELSE IF failAt = "setup"
        THEN Out(e1, w1, Raised("reset", "setup failed", t))
        ELSE IF goal.kind = "object"
        THEN Out(e1, w1, Raised("reset", "Invalid goal type: object", t))
        ELSE IF a.r
        THEN Out(a.e, a.w, Raised("reset", "Active page has been closed", t))
        ELSE IF ~o.ok
        THEN Out(e3, a.w, Raised("reset", o.error, t))
        ELSE Out(e3, a.w, Returned("reset", o.obs, 0, FALSE, "",
                                   [t EXCEPT !.task = task, !.goal = goal.parts]))

(***************************************************************************)
(* BrowserEnv.step(action).  pageFails: the browser operation rejects;     *)
(* val: what task.validate does; captureFails: extractObservation rejects. *)
(***************************************************************************)
Validation(throws, reward, done, message, info) ==
    [ task |-> "any", throws |-> throws, reward |-> reward, done |-> done,
      message |-> message, info |-> info ]

\* a WebCloneTask, whose evaluation of the final state passes, fails or throws
WebCloneValidation(evaluation) ==
    [ task |-> "webclone", evaluation |-> evaluation ]

AssistantMessages(chat) == SelectSeq(chat, LAMBDA m : m.role = "assistant")

\* WebCloneTask.validate: done once there is more than one assistant message;
\* an error of the evaluation is caught and reported in info.error
validate(chat, evaluation) ==
    LET done == Len(AssistantMessages(chat)) > 1
    IN  IF ~done
        THEN Validation(FALSE, 0, FALSE, "", "")
        ELSE IF evaluation = "error"
        THEN Validation(FALSE, 0, TRUE, "", "error")
        ELSE Validation(FALSE, IF evaluation = "pass" THEN 1 ELSE 0, TRUE,
                        "Task completed!", "eval_info")

\* this.task.validate(this.page, this.chatMessages)
taskValidate(v, chat) ==
    IF v.task = "webclone" THEN validate(chat, v.evaluation) ELSE v

\* `${error.constructor.name}: ${error.message}`
FormatError(err) == err.name \o ": " \o err.message

\* the text send_msg_to_user / report_infeasible hand to the exposed function
ActionText(a) == IF a.name = "send_msg_to_user" THEN "done" ELSE "no"

Initialized(e) == e.page # 0 /\ e.task # 0

\* step() without this.lastActionError = '' ahead of the try
ActionErrorKept(prev, x) ==
    IF x.err # NoErr THEN FormatError(x.err) ELSE prev

\* this.lastActionError once the try / catch around executeAction is over:
\* cleared ahead of the try, assigned in the catch
ActionError(prev, x) ==
    IF x.err # NoErr THEN FormatError(x.err) ELSE ""

\* step() past its precondition
stepInitialized(e, w, a, pageFails, v, captureFails) ==
    LET \* a page operation rejects on a closed page, and the exposed functions
        \* exist only on the page reset created
        rejects == \/ pageFails
                   \/ e.page \notin Range(w.pages)
                   \/ /\ a.name \in {"send_msg_to_user", "report_infeasible"}
                      /\ e.page # w.exposed
        x == executeAction(a, rejects)
        failed == x.err # NoErr
        e1 == [e EXCEPT !.lastAction = a.str,
                        !.lastActionError = ActionError(@, x),
                        !.chatMessages = IF x.role # ""
                                         THEN Append(@, Msg(x.role, ActionText(a)))
                                         ELSE @]
        w1 == [w EXCEPT !.pageOps = IF x.invoked THEN @ + 1 ELSE @]
        c == activePageCheck(e1, w1)
        val == taskValidate(v, c.e.chatMessages)
        w2 == [c.w EXCEPT !.validates = @ + 1]
        e2 == [c.e EXCEPT !.chatMessages = IF val.message # ""
                                           THEN Append(@, Msg("user", val.message))
                                           ELSE @]
        o == getObservation(e2, w2, captureFails)
        t0 == [NoTrace EXCEPT !.executed = TRUE, !.action = a.str,
                              !.pageRejects = rejects, !.failed = failed,
                              !.recovered = e1.context /\ Len(w1.pages) = 0,
                              !.dropped = Range(e1.pageHistory) \ Range(c.e.pageHistory)]
        t1 == [t0 EXCEPT !.validated = TRUE, !.valThrew = val.throws,
                         !.valDone = val.done, !.valMessage = val.message,
                         !.captureFailed = ~val.throws /\ ~o.ok,
                         !.requests = IF val.throws THEN {} ELSE o.sent]
    IN  IF c.r
        THEN Out(c.e, c.w, Raised("step", "Active page has been closed", t0))
        ELSE IF val.throws
        THEN Out(c.e, w2, Raised("step", "validate failed", t1))
        ELSE IF ~o.ok
        THEN Out(e2, w2, Raised("step", o.error, t1))
        ELSE Out(e2, w2, Returned("step", o.obs, val.reward, val.done, val.info, t1))

\* step() with the action recorded ahead of the precondition
stepRecordsFirst(e, w, a, pageFails, v, captureFails) ==
    IF ~Initialized(e)
    THEN Out([e EXCEPT !.lastAction = a.str], w,
             Raised("step", NotInitializedMsg, NoTrace))
    ELSE stepInitialized(e, w, a, pageFails, v, captureFails)

step(e, w, a, pageFails, v, captureFails) ==
    IF ~Initialized(e)
    THEN Out(e, w, Raised("step", NotInitializedMsg, NoTrace))
    ELSE stepInitialized(e, w, a, pageFails, v, captureFails)

(***************************************************************************)
(* activatePageFromJS(page): the binding the init script calls on every    *)
(* new document and on focus / input events of a tab.                      *)
(***************************************************************************)
activatePageFromJS(e, p) ==
    IF ~e.context
    THEN e
    ELSE [e EXCEPT !.pageHistory = Append(Remove(@, p), p), !.page = p]

(***************************************************************************)
(* A BrowserEnv driven by an arbitrary caller, with a task that implements *)
(* the Task interface, while tabs open, close and get activated.           *)
(***************************************************************************)
TaskIds == 1..MaxTasks

Validations ==
    { Validation(TRUE, 0, FALSE, "", ""),
      Validation(FALSE, 0, FALSE, "", "info"),
      Validation(FALSE, 0, FALSE, "try again", "info"),
      Validation(FALSE, 0, TRUE, "", "info"),
      Validation(FALSE, 1, TRUE, "Task completed!", "info") }

\* the sets of teardown stages that fail in one close()
CloseFailures == {{}, CloseStages}

HarnessIdle == [pc |-> "idle"]

\* no action string under study
NoParse == [stage |-> "none"]

NoExtraction == [pc |-> "none"]

NoCanon == [stage |-> "none"]

\* same: the chat_messages of the kept observation is the array that is
\* the transcript of the environment
NoneHeld == [kept |-> FALSE, obs |-> NoObs, same |-> FALSE]

NotInStep == [pc |-> "none"]

InitEnv ==
    /\ env = EnvInit
    /\ world = WorldInit
    /\ ret = NoCall
    /\ calls = 0
    /\ h = HarnessIdle
    /\ cache = <<>>
    /\ parse = NoParse
    /\ ex = NoExtraction
    /\ canon = NoCanon
    /\ held = NoneHeld
    /\ inStep = NotInStep

Apply(out) ==
    /\ env' = out.e
    /\ world' = out.w
    /\ ret' = out.r
    /\ calls' = calls + 1
    /\ UNCHANGED <<h, cache, parse, ex, canon, held, inStep>>

Reset ==
    /\ calls < MaxCalls
    /\ \E task \in TaskIds, goal \in Goals, failAt \in ResetFailures,
          fails \in CloseFailures :
          Apply(reset(env, world, task, goal, failAt, fails))

Step ==
    /\ calls < MaxCalls
    /\ \E a \in Actions, pageFails \in BOOLEAN, val \in Validations,
          captureFails \in BOOLEAN :
          Apply(step(env, world, a, pageFails, val, captureFails))

Close ==
    /\ calls < MaxCalls
    /\ \E fails \in CloseFailures : Apply(close(env, world, fails))

PageOpened ==
    /\ env.context
    /\ FreshPage(env, world) <= MaxPages
    /\ LET p == FreshPage(env, world)
       IN  /\ world' = [world EXCEPT !.pages = Append(@, p)]
           /\ env' = activatePageFromJS(env, p)
    /\ UNCHANGED <<ret, calls, h, cache, parse, ex, canon, held, inStep>>

PageClosed ==
    /\ \E p \in Range(world.pages) :
          world' = [world EXCEPT !.pages = Remove(@, p)]
    /\ UNCHANGED <<env, ret, calls, h, cache, parse, ex, canon, held, inStep>>

PageActivated ==
    /\ \E p \in Range(world.pages) :
          /\ env' = activatePageFromJS(env, p)
          /\ env' # env
    /\ UNCHANGED <<world, ret, calls, h, cache, parse, ex, canon, held, inStep>>

(***************************************************************************)
(* The caller keeps an observation it was returned and goes on using the   *)
(* environment.  extractObservation puts the array it is given, which is   *)
(* this.chatMessages, into the observation, and last_action and            *)
(* last_action_error as strings; reset() assigns a new array to            *)
(* this.chatMessages when it gets as far as the goal, step() pushes onto   *)
(* the array that is there.                                                *)
(***************************************************************************)
\* reset() got to `this.chatMessages = [...]`
AssignsTranscript(goal, failAt) ==
    failAt \notin {"launch", "newPage", "setup"} /\ goal.kind # "object"

\* the kept observation as its holder reads it now
Read(hd, e) ==
    IF hd.same THEN [hd.obs EXCEPT !.chat_messages = e.chatMessages] ELSE hd.obs

ApplyHeld(out, assigns) ==
    /\ env' = out.e
    /\ world' = out.w
    /\ ret' = out.r
    /\ calls' = calls + 1
    /\ held' = IF assigns THEN [held EXCEPT !.same = FALSE] ELSE held
    /\ UNCHANGED <<h, cache, parse, ex, canon, inStep>>

HeldReset ==
    /\ calls < MaxTabCalls
    /\ \E task \in TaskIds, goal \in Goals, failAt \in ResetFailures :
          ApplyHeld(reset(env, world, task, goal, failAt, {}),
                    AssignsTranscript(goal, failAt))

HeldStep ==
    /\ calls < MaxTabCalls
    /\ \E a \in Actions, pageFails \in BOOLEAN, val \in Validations,
          captureFails \in BOOLEAN :
          ApplyHeld(step(env, world, a, pageFails, val, captureFails), FALSE)

HeldClose ==
    /\ calls < MaxTabCalls
    /\ ApplyHeld(close(env, world, {}), FALSE)

\* the caller keeps the observation of the call that just returned
Keep ==
    /\ ~held.kept
    /\ ret.kind = "return"
    /\ ret.obs.defined
    /\ held' = [kept |-> TRUE, obs |-> ret.obs, same |-> TRUE]
    /\ UNCHANGED <<env, world, ret, calls, h, cache, parse, ex, canon, inStep>>

NextHeld ==
    \/ HeldReset
    \/ HeldStep
    \/ HeldClose
    \/ Keep

SpecHeld == InitEnv /\ [][NextHeld]_vars

(***************************************************************************)
(* Episodes of one BrowserEnv whose caller keeps an observation: every     *)
(* action string with the browser doing or rejecting what it asks, a task  *)
(* that goes on or is done, resets that succeed.                           *)
(***************************************************************************)
LastReset ==
    /\ calls < MaxCalls
    /\ LET goal == Goal("string", <<Part("text", "buy milk")>>)
       IN  ApplyHeld(reset(env, world, 1, goal, "none", {}),
                     AssignsTranscript(goal, "none"))

LastStep ==
    /\ calls < MaxCalls
    /\ \E a \in Actions, pageFails \in BOOLEAN,
          val \in { Validation(FALSE, 0, FALSE, "", "info"),
                    Validation(FALSE, 1, TRUE, "Task completed!", "info") } :
          ApplyHeld(step(env, world, a, pageFails, val, FALSE), FALSE)

NextLast ==
    \/ LastReset
    \/ LastStep
    \/ Keep

SpecLast == InitEnv /\ [][NextLast]_vars

NextEnv ==
    \/ Reset
    \/ Step
    \/ Close

SpecEnv == InitEnv /\ [][NextEnv]_vars

(***************************************************************************)
(* A BrowserEnv whose tabs open, close and get activated between the calls *)
(* made on it, with each of its teardown stages failing or not.            *)
(***************************************************************************)
\* the capture flags the environment is constructed with: the defaults, and
\* every capture disabled
CaptureConfigs ==
    { <<FALSE, TRUE, TRUE>>, <<FALSE, FALSE, FALSE>> }

InitTabs ==
    /\ \E c \in CaptureConfigs :
          env = [EnvInit EXCEPT !.useHtml = c[1], !.useAxtree = c[2],
                                !.useScreenshot = c[3]]
    /\ world = WorldInit
    /\ ret = NoCall
    /\ calls = 0
    /\ h = HarnessIdle
    /\ cache = <<>>
    /\ parse = NoParse
    /\ ex = NoExtraction
    /\ canon = NoCanon
    /\ held = NoneHeld
    /\ inStep = NotInStep

TabReset ==
    /\ calls < MaxTabCalls
    /\ \E failAt \in TabResetFailures :
          Apply(reset(env, world, 1, Goal("string", <<Part("text", "buy milk")>>),
                      failAt, {}))

TabStep ==
    /\ calls < MaxTabCalls
    /\ Apply(step(env, world, ActionNoop, FALSE,
                  Validation(FALSE, 0, FALSE, "", "info"), FALSE))

TabClose ==
    /\ calls < MaxTabCalls
    /\ \E fails \in SUBSET CloseStages : Apply(close(env, world, fails))

NextTabs ==
    \/ TabReset
    \/ TabStep
    \/ TabClose
    \/ PageOpened
    \/ PageClosed
    \/ PageActivated

SpecTabs == InitTabs /\ [][NextTabs]_vars

(***************************************************************************)
(* parseAction and executeAction applied to the action strings, each as it *)
(* is and in the decorations a model's reply puts around it.               *)
(***************************************************************************)
Decorations ==
    { "none", "spaces", "lines", "fence", "fence tag", "fence same line",
      "fence tag same line", "fence in spaces" }

\* a language tag
Tag == <<"p", "y">>

Decorate(s, d) ==
    CASE d = "none" -> s
      [] d = "spaces" -> <<" ">> \o s \o <<" ", " ">>
      [] d = "lines" -> <<"\n">> \o s \o <<"\n">>
      [] d = "fence" -> Fence \o <<"\n">> \o s \o <<"\n">> \o Fence
      [] d = "fence tag" -> Fence \o Tag \o <<"\n">> \o s \o <<"\n">> \o Fence
      [] d = "fence same line" -> Fence \o s \o Fence
      [] d = "fence tag same line" -> Fence \o Tag \o <<" ">> \o s \o Fence
      [] OTHER -> <<" ">> \o Fence \o <<"\n">> \o s \o <<"\n">> \o Fence \o <<"\n">>

NotParsed == Parsed(FALSE, <<>>, <<>>, ArgsStart)

NotExecuted == ExecResult(FALSE, NoErr, "")

InitParse ==
    /\ env = EnvInit
    /\ world = WorldInit
    /\ ret = NoCall
    /\ calls = 0
    /\ h = HarnessIdle
    /\ cache = <<>>
    /\ \E s \in ActionStrings, d \in Decorations :
          parse = [ stage |-> "given", base |-> s, decoration |-> d,
                    input |-> Decorate(s, d), result |-> NotParsed,
                    exec |-> NotExecuted ]
    /\ ex = NoExtraction
    /\ canon = NoCanon
    /\ held = NoneHeld
    /\ inStep = NotInStep

ParseAction ==
    /\ parse.stage = "given"
    /\ parse' = [parse EXCEPT !.stage = "parsed",
                              !.result = parseAction(parse.input)]
    /\ UNCHANGED <<env, world, ret, calls, h, cache, ex, canon, held, inStep>>

ExecuteAction ==
    /\ parse.stage = "given"
    /\ \E pageFails \in BOOLEAN :
          parse' = [parse EXCEPT !.stage = "executed",
                                 !.result = parseAction(parse.input),
                                 !.exec = executeAction(ActionOf(parse.input),
                                                        pageFails)]
    /\ UNCHANGED <<env, world, ret, calls, h, cache, ex, canon, held, inStep>>

NextParse ==
    \/ ParseAction
    \/ ExecuteAction

SpecParse == InitParse /\ [][NextParse]_vars

(***************************************************************************)
(* extractObservation on an environment that was reset, for every setting  *)
(* of useHtml, useAxtree and useScreenshot and every set of requests the   *)
(* browser rejects.                                                        *)
(***************************************************************************)
\* the environment with the flags c after its first reset, and the browser
AfterReset(c) ==
    reset([EnvInit EXCEPT !.useHtml = c[1], !.useAxtree = c[2],
                          !.useScreenshot = c[3]],
          WorldInit, 1, Goal("string", <<Part("text", "buy milk")>>), "none", {})

InitObs ==
    /\ \E c \in BOOLEAN \X BOOLEAN \X BOOLEAN :
          /\ env = AfterReset(c).e
          /\ world = AfterReset(c).w
    /\ ret = NoCall
    /\ calls = 0
    /\ h = HarnessIdle
    /\ cache = <<>>
    /\ parse = NoParse
    /\ ex = NoExtraction
    /\ canon = NoCanon
    /\ held = NoneHeld
    /\ inStep = NotInStep

ExtractObservation ==
    /\ ret.call = "none"
    /\ \E failing \in SUBSET CaptureRequests :
          LET x == extractObservation(env, world, failing)
              t == [NoTrace EXCEPT !.requests = x.sent, !.rejected = failing]
          IN  ret' = IF x.ok
                     THEN Returned("extractObservation", x.obs, 0, FALSE, "", t)
                     ELSE Raised("extractObservation", x.error, t)
    /\ UNCHANGED <<env, world, calls, h, cache, parse, ex, canon, held, inStep>>

NextObs == ExtractObservation

SpecObs == InitObs /\ [][NextObs]_vars

(***************************************************************************)
(* One call of step(action) after a reset that succeeded, await by await:  *)
(* the action is recorded and executed, waitDOMLoaded waits on each tab of *)
(* context.pages(), then activePageCheck, task.validate, getObservation.   *)
(* inStep.pc is the await the call is at, inStep.log what it has done so   *)
(* far, inStep.todo the tabs waitDOMLoaded has still to wait on.  Tabs     *)
(* open, close and get activated once the action ran, while step() waits   *)
(* for the browser; activePageCheck has no await on the path that leads to     *)
(* task.validate with a tab that was there, so nothing comes in between.   *)
(***************************************************************************)
StepActions == {ActionNoop, ActionSendMsg, ActionUnknown}

\* task.validate returns, returns a message for the user, or throws
StepValidations ==
    { Validation(FALSE, 0, FALSE, "", "info"),
      Validation(FALSE, 0, FALSE, "try again", "info"),
      Validation(TRUE, 0, FALSE, "", "") }

\* one thing step() did: page is the tab it concerns, open whether that tab
\* was open then, failed whether it rejected, chat the transcript handed over
Did(op, page, open, failed, chat) ==
    [ op |-> op, page |-> page, open |-> open, failed |-> failed, chat |-> chat ]

InitStep ==
    /\ env = AfterReset(<<FALSE, TRUE, TRUE>>).e
    /\ world = AfterReset(<<FALSE, TRUE, TRUE>>).w
    /\ ret = NoCall
    /\ calls = 0
    /\ h = HarnessIdle
    /\ cache = <<>>
    /\ parse = NoParse
    /\ ex = NoExtraction
    /\ canon = NoCanon
    /\ held = NoneHeld
    /\ inStep = NotInStep

\* this.lastAction = action; this.lastActionError = ''
RecordAction ==
    /\ inStep.pc = "none"
    /\ Initialized(env)
    /\ \E a \in StepActions :
          /\ env' = [env EXCEPT !.lastAction = a.str, !.lastActionError = ""]
          /\ inStep' = [ pc |-> "execute", action |-> a, todo |-> <<>>,
                         snapshot |-> {},
                         val |-> Validation(FALSE, 0, FALSE, "", ""),
                         log |-> <<Did("record", env.page, TRUE, FALSE, <<>>)>> ]
    /\ UNCHANGED <<world, ret, calls, h, cache, parse, ex, canon, held>>

\* try { await executeAction(action, this.page) } catch { ... }
ExecuteInStep ==
    /\ inStep.pc = "execute"
    /\ \E pageFails \in BOOLEAN :
          LET a == inStep.action
              rejects == \/ pageFails
                         \/ env.page \notin Range(world.pages)
                         \/ /\ a.name \in {"send_msg_to_user", "report_infeasible"}
                            /\ env.page # world.exposed
              x == executeAction(a, rejects)
          IN  /\ env' = [env EXCEPT
                            !.lastActionError = ActionError(@, x),
                            !.chatMessages =
                                IF x.role # ""
                                THEN Append(@, Msg(x.role, ActionText(a)))
                                ELSE @]
              /\ world' = [world EXCEPT !.pageOps = IF x.invoked THEN @ + 1 ELSE @]
              /\ inStep' = [inStep EXCEPT
                               !.pc = "settle",
                               !.log = Append(@, Did("execute", env.page,
                                                     env.page \in Range(world.pages),
                                                     x.err # NoErr, <<>>))]
    /\ UNCHANGED <<ret, calls, h, cache, parse, ex, canon, held>>

\* waitDOMLoaded: const pages = this.context.pages()
WaitDOMLoaded ==
    /\ inStep.pc = "settle"
    /\ inStep' = [inStep EXCEPT
                     !.pc = IF env.context /\ Len(world.pages) > 0
                            THEN "wait" ELSE "check",
                     !.todo = IF env.context THEN world.pages ELSE <<>>,
                     !.snapshot = IF env.context THEN Range(world.pages) ELSE {}]
    /\ UNCHANGED <<env, world, ret, calls, h, cache, parse, ex, canon, held>>

\* the waits on one tab, where a wait that rejects ends the step
WaitForLoadStateAborts ==
    /\ inStep.pc = "wait"
    /\ \E timeout \in BOOLEAN :
          LET p == Head(inStep.todo)
              failed == timeout \/ p \notin Range(world.pages)
          IN  inStep' = [inStep EXCEPT
                            !.todo = Tail(@),
                            !.log = Append(@, Did("wait", p, p \in Range(world.pages),
                                                  failed, <<>>)),
                            !.pc = IF failed THEN "raised"
                                   ELSE IF Len(inStep.todo) = 1 THEN "check"
                                   ELSE "wait"]
    /\ UNCHANGED <<env, world, ret, calls, h, cache, parse, ex, canon, held>>

\* the waits on one tab of the loop of waitDOMLoaded, each in its own
\* try / catch: they time out, or reject on a tab that has been closed
WaitForLoadState ==
    /\ inStep.pc = "wait"
    /\ \E timeout \in BOOLEAN :
          LET p == Head(inStep.todo)
              failed == timeout \/ p \notin Range(world.pages)
          IN  inStep' = [inStep EXCEPT
                            !.todo = Tail(@),
                            !.log = Append(@, Did("wait", p, p \in Range(world.pages),
                                                  failed, <<>>)),
                            !.pc = IF Len(inStep.todo) = 1 THEN "check" ELSE "wait"]
    /\ UNCHANGED <<env, world, ret, calls, h, cache, parse, ex, canon, held>>

\* await this.activePageCheck()
ActivePageCheck ==
    /\ inStep.pc = "check"
    /\ LET c == activePageCheck(env, world)
       IN  /\ env' = c.e
           /\ world' = c.w
           /\ inStep' = [inStep EXCEPT
                            !.pc = IF c.r THEN "raised" ELSE "validate",
                            !.log = Append(@, Did("check", c.e.page,
                                                  c.e.page \in Range(c.w.pages),
                                                  c.r, <<>>))]
           /\ ret' = IF c.r
                     THEN Raised("step", "Active page has been closed", NoTrace)
                     ELSE ret
    /\ UNCHANGED <<calls, h, cache, parse, ex, canon, held>>

\* await this.task.validate(this.page, this.chatMessages), and the push of
\* the message it returns
TaskValidate ==
    /\ inStep.pc = "validate"
    /\ \E v \in StepValidations :
          LET val == taskValidate(v, env.chatMessages)
          IN  /\ world' = [world EXCEPT !.validates = @ + 1]
              /\ env' = IF ~val.throws /\ val.message # ""
                        THEN [env EXCEPT !.chatMessages =
                                             Append(@, Msg("user", val.message))]
                        ELSE env
              /\ inStep' = [inStep EXCEPT
                               !.pc = IF val.throws THEN "raised" ELSE "extract",
                               !.val = val,
                               !.log = Append(@, Did("validate", env.page,
                                                     env.page \in Range(world.pages),
                                                     val.throws, env.chatMessages))]
              /\ ret' = IF val.throws
                        THEN Raised("step", "validate failed", NoTrace)
                        ELSE ret
    /\ UNCHANGED <<calls, h, cache, parse, ex, canon, held>>

\* const obs = await this.getObservation(), and the return
GetObservation ==
    /\ inStep.pc = "extract"
    /\ \E captureFails \in BOOLEAN :
          LET o == getObservation(env, world, captureFails)
              val == inStep.val
          IN  /\ inStep' = [inStep EXCEPT
                               !.pc = IF o.ok THEN "returned" ELSE "raised",
                               !.log = Append(@, Did("extract", env.page,
                                                     env.page \in Range(world.pages),
                                                     ~o.ok, <<>>))]
              /\ ret' = IF o.ok
                        THEN Returned("step", o.obs, val.reward, val.done, val.info,
                                      NoTrace)
                        ELSE Raised("step", o.error, NoTrace)
    /\ UNCHANGED <<env, world, calls, h, cache, parse, ex, canon, held>>

\* what the action brings about in the browser while step() waits
TabEvent ==
    /\ inStep.pc \in {"settle", "wait"}
    /\ \/ PageOpened
       \/ PageClosed
       \/ PageActivated

NextStep ==
    \/ RecordAction
    \/ ExecuteInStep
    \/ WaitDOMLoaded
    \/ WaitForLoadState
    \/ ActivePageCheck
    \/ TaskValidate
    \/ GetObservation
    \/ TabEvent

SpecStep == InitStep /\ [][NextStep]_vars

(***************************************************************************)
(* step() called again on one BrowserEnv before an earlier call has        *)
(* returned.  The calls share the fields of the environment and interleave *)
(* at their awaits: a call runs from one await to the next without         *)
(* interruption.  inStep.call[i] is call i: pc the await it is at, action  *)
(* its argument, failed whether its executeAction rejected, obs what it    *)
(* returns.                                                                *)
(***************************************************************************)
Callers == 2

NotCalled(a) == [pc |-> "none", action |-> a, failed |-> FALSE, obs |-> NoObs]

InitRace ==
    /\ env = AfterReset(<<FALSE, TRUE, TRUE>>).e
    /\ world = AfterReset(<<FALSE, TRUE, TRUE>>).w
    /\ ret = NoCall
    /\ calls = 0
    /\ h = HarnessIdle
    /\ cache = <<>>
    /\ parse = NoParse
    /\ ex = NoExtraction
    /\ canon = NoCanon
    /\ held = NoneHeld
    /\ \E as \in [1..Callers -> StepActions] :
          inStep = [pc |-> "race", call |-> [i \in 1..Callers |-> NotCalled(as[i])]]

\* step(action) up to its first await: the precondition, this.lastAction =
\* action, this.lastActionError = '', and the call of executeAction
StepCalled(i) ==
    /\ inStep.call[i].pc = "none"
    /\ \A j \in 1..(i - 1) : inStep.call[j].pc # "none"
    /\ Initialized(env)
    /\ env' = [env EXCEPT !.lastAction = inStep.call[i].action.str,
                          !.lastActionError = ""]
    /\ inStep' = [inStep EXCEPT !.call[i].pc = "executeAction"]
    /\ UNCHANGED <<world, ret, calls, h, cache, parse, ex, canon, held>>

\* executeAction has settled: the catch block, then the waits up to validate
ActionSettled(i) ==
    /\ inStep.call[i].pc = "executeAction"
    /\ \E pageFails \in BOOLEAN :
          LET a == inStep.call[i].action
              x == executeAction(a, pageFails)
          IN  /\ env' = [env EXCEPT
                            !.lastActionError =
                                IF x.err # NoErr THEN FormatError(x.err) ELSE @,
                            !.chatMessages =
                                IF x.role # ""
                                THEN Append(@, Msg(x.role, ActionText(a)))
                                ELSE @]
              /\ world' = [world EXCEPT !.pageOps = IF x.invoked THEN @ + 1 ELSE @]
              /\ inStep' = [inStep EXCEPT !.call[i].pc = "validate",
                                          !.call[i].failed = x.err # NoErr]
    /\ UNCHANGED <<ret, calls, h, cache, parse, ex, canon, held>>

\* task.validate has returned: getObservation is called with the fields of
\* the environment as they are now
Validated(i) ==
    /\ inStep.call[i].pc = "validate"
    /\ world' = [world EXCEPT !.validates = @ + 1]
    /\ inStep' = [inStep EXCEPT !.call[i].pc = "extractObservation",
                                !.call[i].obs = Observe(env, world)]
    /\ UNCHANGED <<env, ret, calls, h, cache, parse, ex, canon, held>>

\* extractObservation has resolved: step() returns
StepReturned(i) ==
    /\ inStep.call[i].pc = "extractObservation"
    /\ inStep' = [inStep EXCEPT !.call[i].pc = "returned"]
    /\ ret' = Returned("step", inStep.call[i].obs, 0, FALSE, "info", NoTrace)
    /\ UNCHANGED <<env, world, calls, h, cache, parse, ex, canon, held>>

NextRace ==
    \E i \in 1..Callers :
        \/ StepCalled(i)
        \/ ActionSettled(i)
        \/ Validated(i)
        \/ StepReturned(i)

SpecRace == InitRace /\ [][NextRace]_vars

(***************************************************************************)
(* One run of extractObservation, await by await: markElements, the three  *)
(* captures handed to Promise.all, unmarkElements.  ex.pc is the await the *)
(* function is at ("returned" / "raised" once control is back with the     *)
(* caller); markers: the page carries bid attributes; inflight: capture    *)
(* requests sent and not answered; completed: those answered with a value; *)
(* rejected: those the browser rejected; values: the three results of      *)
(* Promise.all.  A request that is in flight is answered whether or not    *)
(* the function still waits for it.                                        *)
(***************************************************************************)
NoValues == [c \in Captures |-> ""]

InitCapture ==
    /\ \E c \in BOOLEAN \X BOOLEAN \X BOOLEAN :
          /\ env = AfterReset(c).e
          /\ world = AfterReset(c).w
    /\ ret = NoCall
    /\ calls = 0
    /\ h = HarnessIdle
    /\ cache = <<>>
    /\ parse = NoParse
    /\ canon = NoCanon
    /\ held = NoneHeld
    /\ inStep = NotInStep
    /\ ex = [ pc |-> "markElements", markers |-> FALSE, inflight |-> {},
              completed |-> {}, rejected |-> {}, values |-> NoValues ]

\* await markElements(page): the script ran, or page.evaluate rejected with
\* the script having set some markers or none
MarkElements ==
    /\ ex.pc = "markElements"
    /\ \/ ex' = [ex EXCEPT !.pc = "captures", !.markers = TRUE]
       \/ \E some \in BOOLEAN : ex' = [ex EXCEPT !.pc = "raised", !.markers = some]
    /\ UNCHANGED <<env, world, ret, calls, h, cache, parse, canon, held, inStep>>

\* the array given to Promise.all: every enabled capture sends its request,
\* a disabled one is an already resolved promise of the neutral value
StartCaptures ==
    /\ ex.pc = "captures"
    /\ ex' = [ex EXCEPT !.pc = "Promise.all", !.inflight = Enabled(env),
                        !.values = [c \in Captures |->
                                       IF c \in Enabled(env) THEN ""
                                       ELSE NeutralValue(c)]]
    /\ UNCHANGED <<env, world, ret, calls, h, cache, parse, canon, held, inStep>>

CaptureResolves ==
    /\ \E c \in ex.inflight :
          ex' = [ex EXCEPT !.inflight = @ \ {c}, !.completed = @ \cup {c},
                          !.values[c] = CaptureValue(c)]
    /\ UNCHANGED <<env, world, ret, calls, h, cache, parse, canon, held, inStep>>

\* Promise.all rejects with the first rejection, the other requests still
\* in flight; nothing catches it in extractObservation
CaptureRejects ==
    /\ \E c \in ex.inflight :
          ex' = [ex EXCEPT !.inflight = @ \ {c}, !.rejected = @ \cup {c},
                          !.pc = IF @ = "Promise.all" THEN "raised" ELSE @]
    /\ UNCHANGED <<env, world, ret, calls, h, cache, parse, canon, held, inStep>>

\* going on with the first capture that is answered, as Promise.race does
AllCapturedAtFirst ==
    /\ ex.pc = "Promise.all"
    /\ ex.completed # {} \/ Enabled(env) = {}
    /\ ex' = [ex EXCEPT !.pc = "unmarkElements"]
    /\ UNCHANGED <<env, world, ret, calls, h, cache, parse, canon, held, inStep>>

\* Promise.all resolves once each of its promises has: a request is then
\* in flight for none of them
AllCaptured ==
    /\ ex.pc = "Promise.all"
    /\ ex.inflight = {}
    /\ ex' = [ex EXCEPT !.pc = "unmarkElements"]
    /\ UNCHANGED <<env, world, ret, calls, h, cache, parse, canon, held, inStep>>

\* await unmarkElements(page), then the observation is put together
UnmarkElements ==
    /\ ex.pc = "unmarkElements"
    /\ \/ /\ ex' = [ex EXCEPT !.pc = "returned", !.markers = FALSE]
          /\ ret' = Returned("extractObservation",
                             [Observe(env, world) EXCEPT
                                 !.dom_object = ex.values["dom"],
                                 !.axtree_object = ex.values["axtree"],
                                 !.screenshot = ex.values["screenshot"]],
                             0, FALSE, "", NoTrace)
       \/ /\ \E some \in BOOLEAN : ex' = [ex EXCEPT !.pc = "raised", !.markers = some]
          /\ UNCHANGED ret
    /\ UNCHANGED <<env, world, calls, h, cache, parse, canon, held, inStep>>

NextCapture ==
    \/ MarkElements
    \/ StartCaptures
    \/ CaptureResolves
    \/ CaptureRejects
    \/ AllCaptured
    \/ UnmarkElements

SpecCapture == InitCapture /\ [][NextCapture]_vars

(***************************************************************************)
(* The marking pass over the frame tree of a page.  A page is given by the *)
(* parent of each frame (frame 1 is the main frame) and the condition of   *)
(* each child frame; every frame holds PlainElements elements that are not *)
(* frames, and one frame element for each of its child frames.  An element *)
(* is <<frame, k>>; bids maps it to its bid attribute, <<>> when it has    *)
(* none.  A bid is a sequence of characters.                               *)
(***************************************************************************)
PlainElements == 2

FrameConditions == {"ok", "detached", "foreign", "sandbox", "sandbox allow-scripts"}

Pages ==
    UNION { { [parent |-> par, condition |-> cond] :
                  par \in { q \in [1..n -> 0..(n - 1)] :
                               /\ q[1] = 0
                               /\ \A k \in 2..n : q[k] \in 1..(k - 1) },
                  cond \in { d \in [1..n -> FrameConditions] : d[1] = "ok" } } :
            n \in 1..MaxFrames }

Frames(pg) == DOMAIN pg.parent

\* frame.childFrames(), in document order
ChildFrames(pg, f) ==
    LET all == { c \in Frames(pg) : pg.parent[c] = f }
        RECURSIVE Sorted(_)
        Sorted(cs) == IF cs = {} THEN <<>>
                      ELSE LET c == CHOOSE x \in cs : \A y \in cs : x <= y
                           IN  <<c>> \o Sorted(cs \ {c})
    IN  Sorted(all)

\* the frame element that hosts child frame c, in the document of its parent
FrameElement(pg, c) == <<pg.parent[c], PlainElements + c>>

Elements(pg) ==
    { <<f, k>> : f \in Frames(pg), k \in 1..PlainElements }
        \cup { FrameElement(pg, c) : c \in Frames(pg) \ {1} }

Unmarked(pg) == [el \in Elements(pg) |-> <<>>]

DigitChars == <<"0", "1", "2", "3", "4", "5", "6", "7", "8", "9">>

LetterChars == <<"a", "b", "c", "d", "e", "f">>

\* the marking script evaluated in frame f with the prefix frameBid: every
\* element of that document gets the prefix followed by an identifier of
\* its own, letters for a frame element and digits for any other element
MarkFrame(pg, f, frameBid, bids) ==
    [el \in Elements(pg) |->
        IF el[1] # f THEN bids[el]
        ELSE IF el[2] <= PlainElements THEN frameBid \o <<DigitChars[el[2]]>>
        ELSE frameBid \o <<LetterChars[IndexOf(ChildFrames(pg, f),
                                                el[2] - PlainElements)]>>]

\* the test of the frame prefix: empty, or a lower-case letter followed by
\* letters
ValidFrameBid(frameBid) ==
    frameBid = <<>> \/ \A i \in 1..Len(frameBid) : frameBid[i] \in Range(LetterChars)

\* markElements(page) of Observation.ts: the script is evaluated by
\* page.evaluate, that is in the main frame, with the empty prefix
markElements(pg, rejects) ==
    IF 1 \in rejects
    THEN [ok |-> FALSE, bids |-> Unmarked(pg), warnings |-> {}]
    ELSE [ok |-> TRUE, bids |-> MarkFrame(pg, 1, <<>>, Unmarked(pg)), warnings |-> {}]

\* markFramesRecursive(frame, frameBid) of preExtract; rejects: the frames
\* in which frame.evaluate rejects; st: the bids so far and the warnings
\* logged.  An error in the handling of a child frame is caught and logged
\* by the loop of its parent.
RECURSIVE markFramesRecursive(_, _, _, _, _)
markFramesRecursive(pg, f, frameBid, rejects, st) ==
    LET st1 == IF f \in rejects
               THEN [st EXCEPT !.warnings = @ \cup {<<"Error marking frame", f>>}]
               ELSE [st EXCEPT !.bids = MarkFrame(pg, f, frameBid, st.bids)]
        RECURSIVE Children(_, _)
        Children(cs, t) ==
            IF cs = <<>> THEN t
            ELSE LET c == Head(cs)
                     bid == t.bids[FrameElement(pg, c)]
                     warn(m) == [t EXCEPT !.warnings = @ \cup {<<m, c>>}]
                 IN  Children(Tail(cs),
                        CASE pg.condition[c] = "detached" -> t
                          [] pg.condition[c] = "foreign" -> warn("Skipping frame")
                          [] pg.condition[c] = "sandbox" -> t
                          [] bid = <<>> -> warn("Cannot mark a child frame without a bid.")
                          [] ~ValidFrameBid(bid) -> warn("Invalid frameBid")
                          [] OTHER -> markFramesRecursive(pg, c, bid, rejects, t))
    IN  Children(ChildFrames(pg, f), st1)

\* preExtract(page) of env.ts
preExtract(pg, rejects) ==
    LET st == markFramesRecursive(pg, 1, <<>>, rejects,
                                  [bids |-> Unmarked(pg), warnings |-> {}])
    IN  [ok |-> TRUE, bids |-> st.bids, warnings |-> st.warnings]

InitMark ==
    /\ env = EnvInit
    /\ world = WorldInit
    /\ ret = NoCall
    /\ calls = 0
    /\ h = HarnessIdle
    /\ cache = <<>>
    /\ parse = NoParse
    /\ canon = NoCanon
    /\ held = NoneHeld
    /\ inStep = NotInStep
    /\ \E pg \in Pages : ex = [pc |-> "page", page |-> pg]

\* the mark pass of extractObservation (BrowserEnv.getObservation)
MarkPass ==
    /\ ex.pc = "page"
    /\ \E rejects \in SUBSET Frames(ex.page) :
          LET m == markElements(ex.page, rejects)
          IN  ex' = [ pc |-> IF m.ok THEN "marked" ELSE "raised", by |-> "markElements",
                      page |-> ex.page, rejects |-> rejects, bids |-> m.bids,
                      warnings |-> m.warnings ]
    /\ UNCHANGED <<env, world, ret, calls, h, cache, parse, canon, held, inStep>>

\* the mark pass of getObs of env.ts
PreExtract ==
    /\ ex.pc = "page"
    /\ \E rejects \in SUBSET Frames(ex.page) :
          LET m == preExtract(ex.page, rejects)
          IN  ex' = [ pc |-> "marked", by |-> "preExtract",
                      page |-> ex.page, rejects |-> rejects, bids |-> m.bids,
                      warnings |-> m.warnings ]
    /\ UNCHANGED <<env, world, ret, calls, h, cache, parse, canon, held, inStep>>

\* the unmarking script evaluated in frame f: the elements of that document
\* lose their bid attribute
UnmarkFrame(pg, f, bids) ==
    [el \in Elements(pg) |-> IF el[1] = f THEN <<>> ELSE bids[el]]

Scriptable(pg, f) == pg.condition[f] \in {"ok", "sandbox allow-scripts"}

\* frame f and the frames above it are attached and run scripts
RECURSIVE PathOk(_, _)
PathOk(pg, f) == f = 1 \/ (Scriptable(pg, f) /\ PathOk(pg, pg.parent[f]))

\* the elements that can have the focus: the ones that are not frames
Focusable(pg) ==
    { el \in Elements(pg) : el[2] <= PlainElements /\ PathOk(pg, el[1]) }

\* the child frame of d that is, or is above, frame f
RECURSIVE ChildToward(_, _, _)
ChildToward(pg, d, f) ==
    IF pg.parent[f] = d THEN f ELSE ChildToward(pg, d, pg.parent[f])

\* document.activeElement in the document of frame d while focus has the
\* focus: the element itself, or the frame element that leads to it
ActiveElement(pg, d, focus) ==
    IF focus[1] = d THEN focus ELSE FrameElement(pg, ChildToward(pg, d, focus[1]))

\* page.evaluate(() => document.activeElement?.getAttribute('bid') || '')
focusedElementBid(pg, bids, focus) == bids[ActiveElement(pg, 1, focus)]

\* extractFocusedElementBid of env.ts: the loop from the main frame down
RECURSIVE extractFocusedElementBid(_, _, _, _, _)
extractFocusedElementBid(pg, bids, focus, frame, focusedBid) ==
    LET element == ActiveElement(pg, frame, focus)
        bid == bids[element]
        found == IF bid # <<>> THEN bid ELSE focusedBid
    IN  IF element[2] > PlainElements
        THEN extractFocusedElementBid(pg, bids, focus, element[2] - PlainElements,
                                      found)
        ELSE found

\* postExtract of env.ts: the frames of the page it unmarks
RECURSIVE postExtract(_, _, _)
postExtract(pg, fs, bids) ==
    IF fs = {} THEN bids
    ELSE LET f == CHOOSE x \in fs : TRUE
         IN  postExtract(pg, fs \ {f},
                         IF f = 1 \/ Scriptable(pg, f)
                         THEN UnmarkFrame(pg, f, bids) ELSE bids)

Observed(by, focus, focusedBid, after) ==
    [ pc |-> "observed", by |-> by, page |-> ex.page, rejects |-> ex.rejects,
      bids |-> ex.bids, warnings |-> ex.warnings, focus |-> focus,
      focused_element_bid |-> focusedBid, after |-> after ]

\* the rest of extractObservation once the captures are in: unmarkElements,
\* which evaluates the script in the main frame, then the focused element
FocusedElementBid ==
    /\ ex.pc = "marked"
    /\ ex.by = "markElements"
    /\ \E focus \in Focusable(ex.page) :
          LET after == UnmarkFrame(ex.page, 1, ex.bids)
          IN  ex' = Observed("markElements", focus,
                             focusedElementBid(ex.page, after, focus), after)
    /\ UNCHANGED <<env, world, ret, calls, h, cache, parse, canon, held, inStep>>

\* the rest of getObs of env.ts: extractFocusedElementBid, then postExtract
ExtractFocusedElementBid ==
    /\ ex.pc = "marked"
    /\ ex.by = "preExtract"
    /\ \E focus \in Focusable(ex.page) :
          ex' = Observed("preExtract", focus,
                         extractFocusedElementBid(ex.page, ex.bids, focus, 1, <<>>),
                         postExtract(ex.page, Frames(ex.page), ex.bids))
    /\ UNCHANGED <<env, world, ret, calls, h, cache, parse, canon, held, inStep>>

NextMark ==
    \/ MarkPass
    \/ PreExtract
    \/ FocusedElementBid
    \/ ExtractFocusedElementBid

SpecMark == InitMark /\ [][NextMark]_vars

(***************************************************************************)
(* The accessibility node of a marked element.  The marking script puts    *)
(* the bid of the element in front of its aria-roledescription and its     *)
(* aria-description, which the browser reports as the roledescription      *)
(* property and the description of the node.  A text is a sequence of      *)
(* characters; a property is [has, value], has = FALSE when the node does  *)
(* not carry it.                                                           *)
(***************************************************************************)
BidPrefix == <<"b", "r", "o", "w", "s", "e", "r", "g", "y", "m", "_", "i", "d", "_">>

\* [a-zA-Z0-9], of the characters that occur
BidChars == Range(LetterChars) \cup Range(DigitChars)

\* \s, of the characters that occur
SpaceChars == {" ", "\n"}

NodeTexts ==
    { <<>>, <<"a", "b">>, <<" ", "a", "b">>, <<"a", " ", "b">>,
      <<"a", "\n", "b">>, <<"\n", "b">> }

NodeBids == { <<"a", "1">>, <<"2">> }

Property(has, value) == [has |-> has, value |-> value]

NoProperty == Property(FALSE, <<>>)

\* the attribute as the element had it, absent when its text is empty
Original(t) == IF t = <<>> THEN NoProperty ELSE Property(TRUE, t)

\* the marking script on one attribute: browsergym_id_<bid>, a blank, and
\* what the attribute held before
PushBid(bid, t) == Property(TRUE, BidPrefix \o bid \o <<" ">> \o t)

\* str.match(/^browsergym_id_([a-zA-Z0-9]+)\s?(.*)/): items is the bid, if
\* there is a match, rest is match[2]: what follows up to the end of the line
extractDataItemsFromAria(str) ==
    LET n == Len(BidPrefix)
        matches == /\ Len(str) > n
                   /\ SubSeq(str, 1, n) = BidPrefix
                   /\ str[n + 1] \in BidChars
        RECURSIVE BidEnd(_)
        BidEnd(i) == IF i < Len(str) /\ str[i + 1] \in BidChars
                     THEN BidEnd(i + 1) ELSE i
        e == BidEnd(n + 1)
        from == IF e < Len(str) /\ str[e + 1] \in SpaceChars THEN e + 2 ELSE e + 1
        RECURSIVE LineEnd(_)
        LineEnd(i) == IF i < Len(str) /\ str[i + 1] # "\n"
                      THEN LineEnd(i + 1) ELSE i
    IN  IF ~matches
        THEN [items |-> <<>>, rest |-> str]
        ELSE [items |-> <<SubSeq(str, n + 1, e)>>,
              rest |-> SubSeq(str, from, LineEnd(from - 1))]

AXNode(roledescription, description, browsergym_id) ==
    [ roledescription |-> roledescription, description |-> description,
      browsergym_id |-> browsergym_id ]

\* extractAXTree of Observation.ts: the response of Accessibility.getFullAXTree
extractAXTree(node) == node

\* the loop body of extractAllFrameAXTrees of env.ts on one node
extractAllFrameAXTrees(node) ==
    LET r == extractDataItemsFromAria(node.roledescription.value)
        d == extractDataItemsFromAria(node.description.value)
        items1 == IF node.roledescription.has THEN r.items ELSE <<>>
        items == IF items1 = <<>> /\ node.description.has THEN d.items ELSE items1
    IN  AXNode(IF node.roledescription.has /\ r.rest # <<>>
               THEN Property(TRUE, r.rest) ELSE NoProperty,
               IF node.description.has /\ d.rest # <<>>
               THEN Property(TRUE, d.rest) ELSE NoProperty,
               IF items # <<>> THEN items[1] ELSE node.browsergym_id)

InitAX ==
    /\ env = EnvInit
    /\ world = WorldInit
    /\ ret = NoCall
    /\ calls = 0
    /\ h = HarnessIdle
    /\ cache = <<>>
    /\ parse = NoParse
    /\ canon = NoCanon
    /\ held = NoneHeld
    /\ inStep = NotInStep
    /\ \E bid \in NodeBids, t \in NodeTexts, u \in NodeTexts :
          ex = [ pc |-> "response", bid |-> bid, t |-> t, u |-> u,
                 node |-> AXNode(PushBid(bid, t), PushBid(bid, u), <<>>) ]

\* the accessibility tree of extractObservation (BrowserEnv.getObservation)
ExtractAXTree ==
    /\ ex.pc = "response"
    /\ ex' = [ex EXCEPT !.pc = "tree", !.node = extractAXTree(@)]
    /\ UNCHANGED <<env, world, ret, calls, h, cache, parse, canon, held, inStep>>

\* the accessibility tree of getObs of env.ts
ExtractAllFrameAXTrees ==
    /\ ex.pc = "response"
    /\ ex' = [ex EXCEPT !.pc = "merged", !.node = extractAllFrameAXTrees(@)]
    /\ UNCHANGED <<env, world, ret, calls, h, cache, parse, canon, held, inStep>>

NextAX == ExtractAXTree \/ ExtractAllFrameAXTrees

SpecAX == InitAX /\ [][NextAX]_vars

(***************************************************************************)
(* Task references.  A reference is the tuple of its dot-free segments.    *)
(***************************************************************************)
DefaultVersion == "v2"

VersionDirs == {"v1", "v2"}

\* the task files of each version, sorted (getTasksForVersion)
Catalog(version) ==
    IF version = "v1" THEN <<"dashdish-1">>
    ELSE <<"dashdish-1", "omnizon-1", "omnizon-2">>

\* name.startsWith(`${taskType}-`)
StartsWithType(name, taskType) ==
    \/ taskType = "omnizon" /\ name \in {"omnizon-1", "omnizon-2"}
    \/ taskType = "dashdish" /\ name \in {"dashdish-1"}

\* `${taskType}-${taskId}`
TypeDashId(taskType, taskId) ==
    CASE taskType = "omnizon" /\ taskId = 1 -> "omnizon-1"
      [] taskType = "omnizon" /\ taskId = 2 -> "omnizon-2"
      [] taskType = "dashdish" /\ taskId = 1 -> "dashdish-1"
      [] OTHER -> "no-such-task"

\* a task reference is the sequence of the segments between its dots; the
\* segments without slash and without white space that occur
PlainSegments == {"", "omnizon-1", "omnizon-2", "dashdish-1", "v1", "v2", "webclones"}

Segments == PlainSegments \cup { "browsergym/" \o x : x \in PlainSegments }

\* cleaned.split('/', 2)[1] of a segment that starts with 'browsergym/'
StartsWithBrowsergym(seg) == \E x \in PlainSegments : seg = "browsergym/" \o x

AfterSlash(seg) == CHOOSE x \in PlainSegments : seg = "browsergym/" \o x

\* trim(): a blank before the first segment and after the last one
TrimLeft(seg) ==
    LET rest == Segments \cup { x \o " " : x \in Segments }
    IN  IF \E x \in rest : seg = " " \o x
        THEN CHOOSE x \in rest : seg = " " \o x
        ELSE seg

TrimRight(seg) ==
    IF \E x \in Segments : seg = x \o " "
    THEN CHOOSE x \in Segments : seg = x \o " "
    ELSE seg

TrimRef(ref) ==
    LET l == [ref EXCEPT ![1] = TrimLeft(@)]
    IN  [l EXCEPT ![Len(l)] = TrimRight(@)]

Thrown(message) == [ok |-> FALSE, error |-> message, value |-> <<>>]

Value(v) == [ok |-> TRUE, error |-> "", value |-> v]

\* Harness.canonicalizeTaskName; split('.', 2) keeps the first two segments
canonicalizeTaskName(ref, taskVersion) ==
    LET cleaned == TrimRef(ref)
        c1 == IF Len(cleaned) >= 2 /\ cleaned[1] = "webclones"
              THEN <<cleaned[2]>> ELSE cleaned
        c2 == IF StartsWithBrowsergym(c1[1])
              THEN <<AfterSlash(c1[1])>> \o Tail(c1)
              ELSE c1
    IN  IF cleaned = <<"">>
        THEN Thrown("Task name cannot be empty")
        ELSE IF Len(c2) >= 2
        THEN Value(<<c2[1], c2[2]>>)
        ELSE Value(<<taskVersion, c2[1]>>)

\* splitTaskReference: [version, name], the name being the rest of the segments
splitTaskReference(ref) ==
    IF ref = <<"">>
    THEN Thrown("Task reference must be a non-empty string")
    ELSE IF Len(ref) >= 2
    THEN IF ref[1] \in VersionDirs
         THEN Value(<<ref[1], Tail(ref)>>)
         ELSE Thrown("Unknown task version")
    ELSE Value(<<DefaultVersion, ref>>)

\* getCanonicalTaskId(taskName, version) of utils.ts
getCanonicalTaskId(taskName, version) == <<version, taskName>>

\* Harness.getTasks; it calls getCanonicalTaskId(version, name)
getTasks(taskType, taskId, taskVersion, sampleTasks) ==
    LET all == Catalog(taskVersion)
        filtered == IF taskType # ""
                    THEN SelectSeq(all, LAMBDA n : StartsWithType(n, taskType))
                    ELSE all
        specific == TypeDashId(taskType, taskId)
    IN  IF taskVersion \notin VersionDirs
        THEN Thrown("Unknown task version")
        ELSE IF taskType # "" /\ taskId # 0
        THEN IF specific \in Range(filtered)
             THEN Value([i \in 1..sampleTasks |->
                            getCanonicalTaskId(taskVersion, specific)])
             ELSE Thrown("Task not found in version")
        ELSE Value([i \in 1..Len(filtered) |->
                       getCanonicalTaskId(taskVersion, filtered[i])])

(***************************************************************************)
(* Harness: configuration, results and the result cache.                   *)
(***************************************************************************)
\* a TaskResult; err_msg and stack_trace are spread in only when truthy
TaskResult(cumReward, stepCount, errSet, errMsg) ==
    [ cum_reward |-> cumReward, num_steps |-> stepCount, success |-> cumReward = 1,
      has_err_msg |-> errSet /\ errMsg # "",
      err_msg |-> IF errSet THEN errMsg ELSE "",
      has_stack_trace |-> errSet, exp_dir |-> "./results" ]

\* a result an earlier run left in the results directory
StoredResult ==
    [ cum_reward |-> 1, num_steps |-> 1, success |-> TRUE, has_err_msg |-> FALSE,
      err_msg |-> "", has_stack_trace |-> FALSE, exp_dir |-> "./earlier" ]

NoResult == TaskResult(0, 0, FALSE, "")

\* the file `${taskName}.json`: readable is whether it parses as JSON
CacheFile(readable, data) == [readable |-> readable, data |-> data]

findCachedResult(files, taskName) ==
    IF taskName \in DOMAIN files /\ files[taskName].readable
    THEN [found |-> TRUE, result |-> files[taskName].data]
    ELSE [found |-> FALSE, result |-> NoResult]

saveResult(files, taskName, result) ==
    (taskName :> CacheFile(TRUE, result)) @@ files

\* the tasks argument of run(): given is whether it was passed
Arg(given, tasks) == [given |-> given, tasks |-> tasks]

canonicalizeAll(tasks, taskVersion) ==
    LET c == [i \in 1..Len(tasks) |-> canonicalizeTaskName(tasks[i], taskVersion)]
    IN  IF \E i \in 1..Len(tasks) : ~c[i].ok
        THEN Thrown("Task name cannot be empty")
        ELSE Value([i \in 1..Len(tasks) |-> c[i].value])

\* run(): the tasks to run; config.taskName is taken as it is
tasksToRun(arg, config) ==
    IF arg.given
    THEN canonicalizeAll(arg.tasks, config.taskVersion)
    ELSE IF config.taskName # <<>> /\ config.taskName # <<"">>
    THEN Value(<<config.taskName>>)
    ELSE getTasks(config.taskType, config.taskId, config.taskVersion,
                  config.sampleTasks)

NoOutcome == [kind |-> "none", error |-> "", result |-> NoResult]

\* agentClosed: close() has been called on the agent of the harness
NewHarness(config, arg) ==
    [ pc |-> "idle", config |-> config, arg |-> arg, tasksToRun |-> <<>>,
      idx |-> 0, results |-> <<>>, taskName |-> <<>>, obs |-> NoObs,
      stepCount |-> 0, cumReward |-> 0, terminated |-> FALSE, truncated |-> FALSE,
      errSet |-> FALSE, errMsg |-> "", action |-> ActionNoop,
      outcome |-> NoOutcome, log |-> <<>>, error |-> "", loop |-> "",
      agentClosed |-> FALSE ]

\* runSingleTask returned: runTasks stores the result and goes to the next task
Finish(hh, result) ==
    [hh EXCEPT !.results = (hh.taskName :> result) @@ @, !.idx = @ + 1,
               !.pc = "task"]

\* an error leaves runSingleTask, runTasks and run()
Reject(hh, message) == [hh EXCEPT !.pc = "rejected", !.error = message]

Logged(hh, call) == [hh EXCEPT !.log = Append(@, call)]

\* after the loop, without the write of the result to the cache
ConcludeWithoutSave(hh, files) ==
    [ h |-> [hh EXCEPT !.pc = "envclose",
                       !.outcome = [kind |-> "return", error |-> "",
                                    result |-> TaskResult(hh.cumReward, hh.stepCount,
                                                          hh.errSet, hh.errMsg)]],
      cache |-> files ]

\* after the loop: the result, and its file when caching is enabled; the
\* finally block runs next
Conclude(hh, files) ==
    LET result == TaskResult(hh.cumReward, hh.stepCount, hh.errSet, hh.errMsg)
    IN  [ h |-> [hh EXCEPT !.pc = "envclose",
                           !.outcome = [kind |-> "return", error |-> "",
                                        result |-> result]],
          cache |-> IF hh.config.useCache
                    THEN saveResult(files, hh.taskName, result)
                    ELSE files ]

(***************************************************************************)
(* Harness.run(tasks), one action per stretch of code between two awaits.   *)
(* The agent, the task and environment constructors, the browser and the    *)
(* evaluation are collaborators: each call returns or throws.               *)
(***************************************************************************)
AgentActions == {ActionNoop, ActionSendMsg, ActionUnknown}

AgentErrors == {"Agent error", ""}

Evaluations == {"pass", "fail", "error"}

\* the goal of a WebCloneTask is a string
TaskGoal == Goal("string", <<Part("text", "buy milk")>>)

Flags == [useCache : BOOLEAN, cacheOnly : BOOLEAN, forceRefresh : BOOLEAN]

\* the agents tried are one with getAction alone and DemoAgent, which defines
\* both optional methods, obsPreprocessor and close
HarnessConfig(flags, hasClose, taskName, taskType, taskId, numWorkers) ==
    [ useCache |-> flags.useCache, cacheOnly |-> flags.cacheOnly,
      forceRefresh |-> flags.forceRefresh, hasClose |-> hasClose,
      hasPreprocessor |-> hasClose,
      taskVersion |-> DefaultVersion, taskName |-> taskName,
      taskType |-> taskType, taskId |-> taskId, sampleTasks |-> 1,
      maxSteps |-> StepBudget, numWorkers |-> numWorkers ]

\* config.numWorkers: two workers are tried where run() is given two tasks
Workers(arg) == IF Len(arg.tasks) = 2 THEN {1, 2} ELSE {1}

\* runTasks: the loop that calls runSingleTask for each task in turn is its
\* own or, with more than one worker, the one of runTasksParallel
runTasks(config) ==
    IF config.numWorkers > 1 THEN "runTasksParallel" ELSE "runTasks"

\* the lists of at most MaxTasks tasks run() is given: the first tasks of this
TaskRefs == << <<"v2", "omnizon-1">>, <<"omnizon-2">>, <<"v1", "dashdish-1">> >>

TaskLists == { SubSeq(TaskRefs, 1, n) : n \in 0..MaxTasks }

\* what run() is called with: [arg, taskName, taskType, taskId]
Inputs ==
    { <<Arg(TRUE, t), <<>>, "", 0>> : t \in TaskLists }
    \cup { <<Arg(TRUE, <<r>>), <<>>, "", 0>> :
             r \in { <<"">>, <<"webclones", "omnizon-1">>,
                     <<"browsergym/omnizon-1">> } }
    \cup { <<Arg(FALSE, <<>>), r, "", 0>> :
             r \in { <<"omnizon-1">>, <<"v2", "omnizon-1">> } }
    \cup { <<Arg(FALSE, <<>>), <<>>, "omnizon", 1>>,
           <<Arg(FALSE, <<>>), <<>>, "omnizon", 3>> }

InitialCaches ==
    { <<>>,
      (<<"v2", "omnizon-1">> :> CacheFile(TRUE, StoredResult)),
      (<<"v2", "omnizon-1">> :> CacheFile(FALSE, NoResult)) }

InitHarness ==
    /\ env = EnvInit
    /\ world = WorldInit
    /\ ret = NoCall
    /\ calls = 0
    /\ \E flags \in Flags, hasClose \in BOOLEAN, i \in Inputs :
          \E numWorkers \in Workers(i[1]) :
             h = NewHarness(HarnessConfig(flags, hasClose, i[2], i[3], i[4],
                                          numWorkers), i[1])
    /\ cache \in InitialCaches
    /\ parse = NoParse
    /\ ex = NoExtraction
    /\ canon = NoCanon
    /\ held = NoneHeld
    /\ inStep = NotInStep

CacheOnlyMsg == "No cached result found and cacheOnly is enabled"

\* the head of runSingleTask without its cacheOnly check
AdmissionIgnoresCacheOnly(config, files, taskName) ==
    IF config.useCache /\ ~config.forceRefresh
          /\ findCachedResult(files, taskName).found
    THEN "cached"
    ELSE "run"

\* the head of runSingleTask without its look into the cache
AdmissionIgnoresCache(config, files, taskName) ==
    IF config.cacheOnly THEN "refuse" ELSE "run"

\* the head of runSingleTask: "cached" returns the cached result, "refuse"
\* throws for cacheOnly, "run" goes on to run the task
Admission(config, files, taskName) ==
    IF config.useCache /\ ~config.forceRefresh
          /\ findCachedResult(files, taskName).found
    THEN "cached"
    ELSE IF config.cacheOnly THEN "refuse" ELSE "run"

\* run() up to its first call of runSingleTask
Run ==
    /\ h.pc = "idle"
    /\ LET t == tasksToRun(h.arg, h.config)
       IN  h' = IF ~t.ok
                THEN Reject(h, t.error)
                ELSE IF Len(t.value) = 0
                THEN Reject(h, "No tasks found to run")
                ELSE [h EXCEPT !.pc = "task", !.tasksToRun = t.value, !.idx = 1,
                               !.loop = runTasks(h.config)]
    /\ UNCHANGED <<env, world, ret, calls, cache, parse, ex, canon, held, inStep>>

\* runSingleTask(taskName) up to env.reset: the cache, cacheOnly, then the
\* construction (logged as "construct"): the parse of the reference, the task
\* configuration, the task and the environment
StartTask ==
    /\ h.pc = "task"
    /\ h.idx <= Len(h.tasksToRun)
    /\ LET taskName == h.tasksToRun[h.idx]
           cached == findCachedResult(cache, taskName)
           s == splitTaskReference(taskName)
           \* a new call of runSingleTask: its locals are new
           h0 == [NewHarness(h.config, h.arg) EXCEPT
                     !.pc = h.pc, !.tasksToRun = h.tasksToRun, !.idx = h.idx,
                     !.results = h.results, !.taskName = taskName,
                     !.loop = h.loop, !.agentClosed = h.agentClosed]
           admit == Admission(h.config, cache, taskName)
           h1 == Logged(h0, "construct")
       IN  IF admit = "cached"
           THEN /\ h' = Finish(h0, cached.result)
                /\ UNCHANGED <<env, world, ret, inStep>>
           ELSE IF admit = "refuse"
           THEN /\ h' = Reject(h0, CacheOnlyMsg)
                /\ UNCHANGED <<env, world, ret, inStep>>
           ELSE IF ~s.ok
           THEN /\ h' = Reject(h1, s.error)
                /\ UNCHANGED <<env, world, ret, inStep>>
           ELSE \E built \in BOOLEAN :
                   IF built
                   THEN /\ h' = [h1 EXCEPT !.pc = "reset"]
                        /\ env' = EnvInit
                        /\ world' = [WorldInit EXCEPT !.live = world.live]
                        /\ ret' = NoCall
                   ELSE /\ h' = Reject(h1, "Unknown task version")
                        /\ UNCHANGED <<env, world, ret, inStep>>
    /\ UNCHANGED <<calls, cache, parse, ex, canon, held, inStep>>

\* env.reset rejected, and its error leaves runSingleTask at once
AfterResetErrorNoFinally(hh, message) == Reject(hh, message)

\* env.reset rejected: the error is pending while the finally block runs
AfterResetError(hh, message) ==
    [hh EXCEPT !.pc = "envclose",
               !.outcome = [kind |-> "raise", error |-> message,
                            result |-> NoResult]]

\* obs = await env.reset(task), then the locals of the loop
afterReset(hh, r) ==
    IF r.kind = "raise"
    THEN AfterResetError(hh, r.error)
    ELSE [hh EXCEPT !.pc = "agent", !.obs = r.obs, !.stepCount = 0,
                    !.cumReward = 0, !.terminated = FALSE, !.truncated = FALSE,
                    !.errSet = FALSE, !.errMsg = ""]

\* the environment call made by the harness has come back with out
EnvCalled(out) ==
    /\ env' = out.e
    /\ world' = out.w
    /\ ret' = out.r

EnvReset ==
    /\ h.pc = "reset"
    /\ \E failAt \in ResetFailures :
          EnvCalled(reset(env, world, h.idx, TaskGoal, failAt, {}))
    /\ h' = afterReset(Logged(h, "env.reset"), ret')
    /\ UNCHANGED <<calls, cache, parse, ex, canon, held, inStep>>

\* await this.agent.getAction(obs): an action, or an error the loop catches
AgentGetAction ==
    /\ h.pc = "agent"
    /\ \/ /\ \E a \in AgentActions :
                h' = [Logged(h, "agent.getAction") EXCEPT !.pc = "step", !.action = a]
          /\ UNCHANGED cache
       \/ \E m \in AgentErrors :
             LET c == Conclude([Logged(h, "agent.getAction") EXCEPT
                                   !.errSet = TRUE, !.errMsg = m], cache)
             IN  h' = c.h /\ cache' = c.cache
    /\ UNCHANGED <<env, world, ret, calls, parse, ex, canon, held, inStep>>

\* the rest of the loop body without obs = newObs
afterStepKeepsObs(hh, files, r) ==
    LET h2 == [hh EXCEPT !.cumReward = r.reward,
                         !.terminated = r.terminated, !.truncated = r.truncated,
                         !.stepCount = @ + 1]
    IN  IF r.kind = "raise"
        THEN Conclude([hh EXCEPT !.errSet = TRUE, !.errMsg = r.error], files)
        ELSE IF \/ h2.terminated
                \/ h2.truncated
                \/ h2.stepCount >= h2.config.maxSteps
        THEN Conclude(h2, files)
        ELSE [h |-> [h2 EXCEPT !.pc = "agent"], cache |-> files]

\* the rest of the loop body with the loop condition stepCount <= maxSteps
afterStepOneMore(hh, files, r) ==
    LET h2 == [hh EXCEPT !.obs = r.obs, !.cumReward = r.reward,
                         !.terminated = r.terminated, !.truncated = r.truncated,
                         !.stepCount = @ + 1]
    IN  IF r.kind = "raise"
        THEN Conclude([hh EXCEPT !.errSet = TRUE, !.errMsg = r.error], files)
        ELSE IF \/ h2.terminated
                \/ h2.truncated
                \/ h2.stepCount > h2.config.maxSteps
        THEN Conclude(h2, files)
        ELSE [h |-> [h2 EXCEPT !.pc = "agent"], cache |-> files]

\* the rest of the loop body once env.step has come back with r, and the
\* loop condition
afterStep(hh, files, r) ==
    LET h2 == [hh EXCEPT !.obs = r.obs, !.cumReward = r.reward,
                         !.terminated = r.terminated, !.truncated = r.truncated,
                         !.stepCount = @ + 1]
    IN  IF r.kind = "raise"
        THEN Conclude([hh EXCEPT !.errSet = TRUE, !.errMsg = r.error], files)
        ELSE IF \/ h2.terminated
                \/ h2.truncated
                \/ h2.stepCount >= h2.config.maxSteps
        THEN Conclude(h2, files)
        ELSE [h |-> [h2 EXCEPT !.pc = "agent"], cache |-> files]

EnvStep ==
    /\ h.pc = "step"
    /\ \E evaluation \in Evaluations, captureFails \in BOOLEAN :
          EnvCalled(step(env, world, h.action, FALSE,
                         WebCloneValidation(evaluation), captureFails))
    /\ h' = afterStep(Logged(h, "env.step"), cache, ret').h
    /\ cache' = afterStep(Logged(h, "env.step"), cache, ret').cache
    /\ UNCHANGED <<calls, parse, ex, canon, held, inStep>>

\* runSingleTask is left with the pending result or error
Settle(hh) ==
    IF hh.outcome.kind = "return"
    THEN Finish(hh, hh.outcome.result)
    ELSE Reject(hh, hh.outcome.error)

\* finally: await env.close()
EnvClose ==
    /\ h.pc = "envclose"
    /\ EnvCalled(close(env, world, {}))
    /\ h' = IF h.config.hasClose
            THEN [Logged(h, "env.close") EXCEPT !.pc = "agentclose"]
            ELSE Settle(Logged(h, "env.close"))
    /\ UNCHANGED <<calls, cache, parse, ex, canon, held, inStep>>

\* finally: await this.agent.close(); an error of it replaces the outcome
AgentClose ==
    /\ h.pc = "agentclose"
    /\ \E throws \in BOOLEAN :
          LET h1 == [Logged(h, "agent.close") EXCEPT !.agentClosed = TRUE]
          IN  h' = IF throws
                   THEN Reject(h1, "agent close failed")
                   ELSE Settle(h1)
    /\ UNCHANGED <<env, world, ret, calls, cache, parse, ex, canon, held, inStep>>

\* runTasks is through the list: run() returns the results
RunReturns ==
    /\ h.pc = "task"
    /\ h.idx > Len(h.tasksToRun)
    /\ h' = [h EXCEPT !.pc = "done"]
    /\ UNCHANGED <<env, world, ret, calls, cache, parse, ex, canon, held, inStep>>

NextHarness ==
    \/ Run
    \/ StartTask
    \/ EnvReset
    \/ AgentGetAction
    \/ EnvStep
    \/ EnvClose
    \/ AgentClose
    \/ RunReturns

SpecHarness == InitHarness /\ [][NextHarness]_vars

(***************************************************************************)
(* canonicalizeTaskName of a Harness constructed with or without           *)
(* taskVersion, on references made of an optional legacy prefix, a name    *)
(* with or without version, and white space around them.                   *)
(***************************************************************************)
\* names, with and without version, and the blank reference
Cores == { <<"omnizon-1">>, <<"dashdish-1">>, <<"v2", "omnizon-1">>,
           <<"v1", "dashdish-1">>, <<"v1", "omnizon-2">>, <<"">> }

Prefixes == {"", "webclones.", "browsergym/"}

Paddings == {"", "before", "after", "around"}

\* the reference prefix + core, with white space as pad says
Reference(prefix, core, pad) ==
    LET r == CASE prefix = "webclones." -> <<"webclones">> \o core
               [] prefix = "browsergym/" -> [core EXCEPT ![1] = "browsergym/" \o @]
               [] OTHER -> core
        l == IF pad \in {"before", "around"} THEN [r EXCEPT ![1] = " " \o @] ELSE r
    IN  IF pad \in {"after", "around"} THEN [l EXCEPT ![Len(l)] = @ \o " "] ELSE l

\* config.taskVersion || 'v2' of the constructor
ConfiguredVersion(taskVersion) ==
    IF taskVersion = "" THEN DefaultVersion ELSE taskVersion

InitCanon ==
    /\ env = EnvInit
    /\ world = WorldInit
    /\ ret = NoCall
    /\ calls = 0
    /\ h = HarnessIdle
    /\ cache = <<>>
    /\ parse = NoParse
    /\ ex = NoExtraction
    /\ held = NoneHeld
    /\ inStep = NotInStep
    /\ \E prefix \in Prefixes, core \in Cores, pad \in Paddings,
          taskVersion \in {"", "v1", "v2"} :
          /\ core = <<"">> => prefix = "" /\ pad \in {"", "before"}
          /\ canon = [ stage |-> "given", prefix |-> prefix, core |-> core,
                       pad |-> pad, taskVersion |-> taskVersion,
                       ref |-> Reference(prefix, core, pad),
                       result |-> Thrown("") ]

CanonicalizeTaskName ==
    /\ canon.stage = "given"
    /\ canon' = [canon EXCEPT
                    !.stage = "done",
                    !.result = canonicalizeTaskName(
                                   canon.ref, ConfiguredVersion(canon.taskVersion))]
    /\ UNCHANGED <<env, world, ret, calls, h, cache, parse, ex, held, inStep>>

NextCanon == CanonicalizeTaskName

SpecCanon == InitCanon /\ [][NextCanon]_vars

(***************************************************************************)
(* Harness.getTasks(taskType, taskId, taskVersion) under config.sampleTasks *)
(* (taskType "" and taskId 0: not given).                                  *)
(***************************************************************************)
InitTasks ==
    /\ env = EnvInit
    /\ world = WorldInit
    /\ ret = NoCall
    /\ calls = 0
    /\ h = HarnessIdle
    /\ cache = <<>>
    /\ parse = NoParse
    /\ ex = NoExtraction
    /\ held = NoneHeld
    /\ inStep = NotInStep
    /\ \E taskType \in {"", "omnizon", "dashdish"}, taskId \in 0..3,
          taskVersion \in VersionDirs \cup {"v9"}, sampleTasks \in 1..MaxTasks :
          canon = [ stage |-> "asked", taskType |-> taskType, taskId |-> taskId,
                    taskVersion |-> taskVersion, sampleTasks |-> sampleTasks,
                    result |-> Thrown("") ]

GetTasks ==
    /\ canon.stage = "asked"
    /\ canon' = [canon EXCEPT
                    !.stage = "listed",
                    !.result = getTasks(canon.taskType, canon.taskId,
                                        canon.taskVersion, canon.sampleTasks)]
    /\ UNCHANGED <<env, world, ret, calls, h, cache, parse, ex, held, inStep>>

NextTasks == GetTasks

SpecTasks == InitTasks /\ [][NextTasks]_vars

(***************************************************************************)
(* The construction of the task in runSingleTask.  A string is the         *)
(* sequence of its dot-separated segments, <<>> being undefined or ''; an  *)
(* object is a record, and a property it does not have reads as undefined. *)
(***************************************************************************)
RefSegments == {"v1", "v2", "v9", "omnizon-1", "dashdish-1"}

References == UNION { [1..n -> RefSegments] : n \in 1..3 }

Field(obj, name) == IF name \in DOMAIN obj THEN obj[name] ELSE <<>>

\* fs.existsSync(configPath) of the task file of a version
ConfigExists(version, name) ==
    /\ Len(name) = 1
    /\ name[1] \in Range(Catalog(version))

\* new TaskConfig(task_name, version?); valid is isValidConfig() of the file
TaskConfig(task_name, version, valid) ==
    LET s == splitTaskReference(task_name)
        resolved_version == IF version # <<>> THEN version ELSE <<s.value[1]>>
        resolved_name == IF version # <<>> THEN task_name ELSE s.value[2]
    IN  IF version = <<>> /\ ~s.ok
        THEN Thrown(s.error)
        ELSE IF ~(Len(resolved_version) = 1 /\ resolved_version[1] \in VersionDirs)
        THEN Thrown("Unknown task version")
        ELSE IF ~ConfigExists(resolved_version[1], resolved_name)
        THEN Thrown("Task configuration file not found")
        ELSE IF ~valid
        THEN Thrown("Invalid task configuration for task ID")
        ELSE Value([version |-> resolved_version,
                    task_name |-> resolved_name,
                    canonical_id |-> resolved_version \o resolved_name])

\* new WebCloneTask(config): the name and the version it resolves from the one
\* object it is given, then its task configuration
WebCloneTask(config, valid) ==
    LET taskName == Field(config, "taskName")
        taskVersion == Field(config, "taskVersion")
        taskId == Field(config, "taskId")
        s == splitTaskReference(taskId)
    IN  IF taskName # <<>> /\ taskVersion # <<>>
        THEN TaskConfig(taskName, taskVersion, valid)
        ELSE IF taskId # <<>>
        THEN IF s.ok THEN TaskConfig(s.value[2], <<s.value[1]>>, valid)
                     ELSE Thrown(s.error)
        ELSE IF taskName # <<>>
        THEN TaskConfig(taskName, <<DefaultVersion>>, valid)
        ELSE Thrown("taskName and taskVersion are required")

\* runSingleTask from the parse of the reference to the task: the value is the
\* task configuration of the task that env.reset would be given
constructTask(taskName, runId, valid) ==
    LET s == splitTaskReference(taskName)
        version == <<s.value[1]>>
        name == s.value[2]
        taskConfig == TaskConfig(version, name, valid)
    IN  IF ~s.ok THEN Thrown(s.error)
        ELSE IF ~taskConfig.ok THEN taskConfig
        ELSE WebCloneTask(taskConfig.value, valid)

InitConstruct ==
    /\ env = EnvInit
    /\ world = WorldInit
    /\ ret = NoCall
    /\ calls = 0
    /\ h = HarnessIdle
    /\ cache = <<>>
    /\ parse = NoParse
    /\ ex = NoExtraction
    /\ held = NoneHeld
    /\ inStep = NotInStep
    /\ \E ref \in References, valid \in BOOLEAN :
          canon = [stage |-> "reference", ref |-> ref, valid |-> valid,
                   result |-> Thrown("")]

\* runSingleTask(taskName) of the harness, up to env.reset
RunSingleTaskConstructs ==
    /\ canon.stage = "reference"
    /\ canon' = [canon EXCEPT !.stage = "runSingleTask",
                              !.result = constructTask(canon.ref, "run", canon.valid)]
    /\ UNCHANGED <<env, world, ret, calls, h, cache, parse, ex, held, inStep>>

\* new WebCloneTask({ taskId }) as the tests and the examples construct it
WebCloneTaskById ==
    /\ canon.stage = "reference"
    /\ canon' = [canon EXCEPT !.stage = "taskId",
                              !.result = WebCloneTask([taskId |-> canon.ref], canon.valid)]
    /\ UNCHANGED <<env, world, ret, calls, h, cache, parse, ex, held, inStep>>

NextConstruct == RunSingleTaskConstructs \/ WebCloneTaskById

SpecConstruct == InitConstruct /\ [][NextConstruct]_vars

(***************************************************************************)
(* Properties of BrowserEnv.step, checked under SpecEnv.                   *)
(***************************************************************************)
\* the action strings whose parse or dispatch fails: too few arguments, an
\* unknown operation, a malformed string
FailingActions == {ActionClickNoArg, ActionFillOneArg, ActionUnknown, ActionMalformed}

\* the last call was a step whose action failed to parse or execute
ActionFailedInStep ==
    /\ ret.call = "step"
    /\ ret.trace.executed
    /\ \/ ret.trace.action \in {a.str : a \in FailingActions}
       \/ ret.trace.pageRejects

C2_StepBeforeReset ==
    [][ (ret'.call = "step" /\ calls' = calls + 1 /\ env.task = 0) =>
            /\ ret'.kind = "raise"
            /\ ret'.error = NotInitializedMsg
            /\ ~ret'.trace.executed
            /\ ~ret'.trace.validated
            /\ env' = env
            /\ world' = world ]_vars

\* the first call made on a new environment was a step, and it raised
C2_Witness ==
    /\ calls = 1
    /\ ret.call = "step"
    /\ ret.kind = "raise"
    /\ ret.error = NotInitializedMsg
    /\ env = EnvInit

\* C3: when task.validate throws during step(), step() returns with reward 0
\* and done false instead of raising.  The source does not catch the error of
\* validate, so this fails.
C3_ValidateErrorIsCaught ==
    (ret.call = "step" /\ ret.trace.valThrew) =>
        /\ ret.kind = "return"
        /\ ret.reward = 0
        /\ ~ret.terminated

(***************************************************************************)
(* Properties of Harness.run, checked under SpecHarness.                   *)
(***************************************************************************)
Count(s, x) == Len(SelectSeq(s, LAMBDA y : y = x))

\* runSingleTask(h.taskName) has returned or raised
Exited == h.taskName # <<>> /\ h.pc \in {"task", "done", "rejected"}

\* the next step is runSingleTask(k) with a readable cache file for k
AtCachedTask ==
    /\ h.pc = "task"
    /\ h.idx <= Len(h.tasksToRun)
    /\ h.tasksToRun[h.idx] \in DOMAIN cache
    /\ cache[h.tasksToRun[h.idx]].readable

\* C4: in run(tasks) over a list of tasks an error raised in one task's
\* episode (construction, env.reset, agent call, env.step, close) does not
\* reject run(), and the record run() returns has an entry for every task.
\* The source lets the errors of construction, env.reset and agent.close
\* leave runSingleTask, runTasks and run(), so this fails.
C4_TaskErrorsAreIsolated ==
    /\ (h.arg.given /\ h.pc = "rejected") => "construct" \notin Range(h.log)
    /\ h.pc = "done" =>
          \A i \in 1..Len(h.tasksToRun) : h.tasksToRun[i] \in DOMAIN h.results

\* C5: when agent.getAction or env.step raises in step k, the episode ends
\* with a result (not an error) whose success is false, whose err_msg holds
\* the message of the error, whose num_steps is the number of steps completed
\* before, and which is in the task's cache file when caching is enabled.
\* The source leaves err_msg out when the message is empty, so this fails.
C5_StepErrorGivesFailedResult ==
    (h.pc = "envclose" /\ h.outcome.kind = "return" /\ h.errSet) =>
        LET r == h.outcome.result
            completed == Count(h.log, "env.step")
                             - (IF Last(h.log) = "env.step" THEN 1 ELSE 0)
        IN  /\ ~r.success
            /\ r.has_err_msg
            /\ r.err_msg = h.errMsg
            /\ r.num_steps = completed
            /\ h.config.useCache =>
                  /\ h.taskName \in DOMAIN cache
                  /\ cache[h.taskName] = CacheFile(TRUE, r)

\* C6: for a task whose environment runSingleTask constructed, env.close() is
\* called exactly once before runSingleTask returns or raises, however the
\* episode ended (termination, step budget, caught step error, error of
\* env.reset), and agent.close(), when the agent defines it, is called once,
\* after env.close(); neither is ever called twice for a task.
C6_EnvClosedOnce ==
    /\ Count(h.log, "env.close") <= 1
    /\ Count(h.log, "agent.close") <= 1
    /\ "agent.close" \in Range(h.log) =>
          /\ h.config.hasClose
          /\ "env.close" \in Range(h.log)
          /\ IndexOf(h.log, "env.close") < IndexOf(h.log, "agent.close")
    /\ (Exited /\ "env.reset" \in Range(h.log)) =>
          /\ Count(h.log, "env.close") = 1
          /\ h.config.hasClose => Count(h.log, "agent.close") = 1
          /\ ~env.browser /\ env.page = 0

\* env.reset threw, and the environment and then the agent were closed before
\* the error left run()
C6_Witness ==
    /\ h.pc = "rejected"
    /\ h.error = "setup failed"
    /\ h.log = <<"construct", "env.reset", "env.close", "agent.close">>

\* C7: with useCache and without forceRefresh, runSingleTask of a task that has
\* a readable cache file returns the stored result and does nothing else: no
\* construction, no environment or agent call, no write to the cache.
C7_CacheHitHasNoOtherEffect ==
    [][ (AtCachedTask /\ h.config.useCache /\ ~h.config.forceRefresh) =>
            /\ h'.pc = "task"
            /\ h'.idx = h.idx + 1
            /\ h.tasksToRun[h.idx] \in DOMAIN h'.results
            /\ h'.results[h.tasksToRun[h.idx]] = cache[h.tasksToRun[h.idx]].data
            /\ h'.log = <<>>
            /\ cache' = cache
            /\ env' = env
            /\ world' = world
            /\ ret' = ret ]_vars

\* run() returned the stored result of v2.omnizon-1 without running anything
C7_Witness ==
    /\ h.pc = "done"
    /\ h.config.useCache
    /\ ~h.config.forceRefresh
    /\ h.tasksToRun = << <<"v2", "omnizon-1">> >>
    /\ h.results[<<"v2", "omnizon-1">>] = StoredResult
    /\ h.log = <<>>
    /\ cache[<<"v2", "omnizon-1">>] = CacheFile(TRUE, StoredResult)
    /\ world = WorldInit

C9_CacheOnlyNeverRuns ==
    h.config.cacheOnly =>
        /\ h.log = <<>>
        /\ env = EnvInit
        /\ world = WorldInit
        /\ ret = NoCall
        /\ (/\ h.taskName # <<>>
            /\ \/ h.taskName \notin DOMAIN cache
               \/ ~cache[h.taskName].readable
               \/ ~h.config.useCache
               \/ h.config.forceRefresh) =>
              /\ h.pc = "rejected"
              /\ h.error = CacheOnlyMsg

\* cacheOnly and no cache file for the task: run() rejected with the
\* cacheOnly error and nothing was constructed
C9_Witness ==
    /\ h.config.cacheOnly
    /\ h.taskName # <<>>
    /\ h.taskName \notin DOMAIN cache
    /\ h.pc = "rejected"
    /\ h.error = CacheOnlyMsg
    /\ h.log = <<>>
    /\ world.live = 0

\* '<version>.<name>' of a task of the catalog
Canonical(k) ==
    /\ Len(k) = 2
    /\ k[1] \in VersionDirs
    /\ k[2] \in Range(Catalog(k[1]))

\* C10: however a task is referenced, here by an entry of run(tasks) or by
\* config.taskName, with or without its version, the names runSingleTask is
\* called with, the keys of the record run() returns and the names of the
\* cache files are canonical ids '<version>.<name>'.  The source takes
\* config.taskName as it is, so this fails.
C10_CacheKeyedByCanonicalId ==
    (h.arg.given \/ h.config.taskName # <<>>) =>
        \A k \in Range(h.tasksToRun) \cup DOMAIN h.results \cup DOMAIN cache :
            Canonical(k)

(***************************************************************************)
(* Properties of BrowserEnv with tabs, checked under SpecTabs.             *)
(***************************************************************************)
CallMade(name) == ret'.call = name /\ calls' = calls + 1

\* C11: close() never raises; every stage whose resource is there (task,
\* capture session, context, browser) is attempted whichever of them throw;
\* on return browser, context, page and cdpSession are null and the tab
\* history is empty.  This holds for every call of close(): the first, a
\* repeated one, one before any reset() and one after a reset() that failed.
C11_CloseNeverRaises ==
    [][ CallMade("close") =>
            /\ ret'.kind = "return"
            /\ ret'.trace.attempted = StagesDue(env)
            /\ ret'.trace.stageFailed \subseteq ret'.trace.attempted
            /\ ~env'.browser /\ ~env'.context /\ ~env'.cdpSession
            /\ env'.page = 0
            /\ env'.pageHistory = <<>> ]_vars

\* a close() in which all four stages threw has returned, and the
\* environment holds no browser, context, page or session
C11_Witness ==
    /\ ret.call = "close"
    /\ ret.kind = "return"
    /\ ret.trace.stageFailed = CloseStages
    /\ ret.trace.attempted = CloseStages
    /\ ~env.browser /\ ~env.context /\ ~env.cdpSession
    /\ env.page = 0
    /\ env.pageHistory = <<>>

\* the tabs of the history that are open, in the order of their activation
OpenHistory(e, w) == SelectSeq(e.pageHistory, LAMBDA p : p \in Range(w.pages))

\* C12: whenever reset() or step() returns, the active tab is one of the
\* open tabs of the context; and if the tab that was active before a step
\* is closed while tabs of the history are open, the active tab after the
\* step is the open tab of the history activated last.
C12_ActiveTabIsOpen ==
    [][ ((CallMade("reset") \/ CallMade("step")) /\ ret'.kind = "return") =>
            /\ env'.page \in Range(world'.pages)
            /\ ret'.obs.active_page = env'.page
            /\ (/\ ret'.call = "step"
                /\ env.page \notin Range(world.pages)
                /\ OpenHistory(env, world) # <<>>) =>
                  env'.page = Last(OpenHistory(env, world)) ]_vars

\* tabs 2 and 3 were activated after tab 1 and then closed: the step dropped
\* both from the history and made tab 1 the active tab
C12_Witness ==
    /\ ret.call = "step"
    /\ ret.kind = "return"
    /\ ret.trace.dropped = {2, 3}
    /\ env.page = 1
    /\ ret.obs.active_page = 1
    /\ ret.obs.open_pages = <<1>>

\* C13: an observation returned by reset() or step() lists at least one open
\* tab and its active_page_index is the index of the active tab; and a step
\* that finds every tab closed opens a new tab, makes it the active one and
\* returns an observation.  The capture session of the source stays attached
\* to the tab reset() created, so once that tab is closed the captures of
\* the step are rejected and step() raises: this fails.
C13_NoObservationWithoutTab ==
    /\ (ret.call \in {"reset", "step"} /\ ret.kind = "return") =>
          /\ ret.obs.open_pages # <<>>
          /\ ret.obs.active_page_index \in 0..(Len(ret.obs.open_pages) - 1)
          /\ ret.obs.open_pages[ret.obs.active_page_index + 1] = ret.obs.active_page
    /\ (ret.call = "step" /\ ret.trace.recovered) =>
          /\ ret.kind = "return"
          /\ ret.obs.open_pages = <<ret.obs.active_page>>

CompletedSteps ==
    Count(h.log, "env.step")
        - (IF h.errSet /\ Count(h.log, "env.step") > 0
                /\ Last(SelectSeq(h.log, LAMBDA c : c \in {"env.step", "agent.getAction"}))
                       = "env.step"
           THEN 1 ELSE 0)

\* C15: in every episode env.step is called at most maxSteps times; the
\* loop goes on only while no step has returned terminated or truncated,
\* none has raised and fewer than maxSteps steps are done; and num_steps of
\* the result is the number of steps that returned, at most maxSteps.
C15_LoopIsBounded ==
    /\ Count(h.log, "env.step") <= h.config.maxSteps
    /\ Count(h.log, "agent.getAction") <= h.config.maxSteps
    /\ h.pc \in {"agent", "step"} =>
          /\ ~h.terminated /\ ~h.truncated /\ ~h.errSet
          /\ h.stepCount < h.config.maxSteps
    /\ h.outcome.kind = "return" =>
          /\ h.outcome.result.num_steps = CompletedSteps
          /\ h.outcome.result.num_steps <= h.config.maxSteps

\* an episode used up its step budget: maxSteps steps returned, none of them
\* terminated, and the result has num_steps = maxSteps
C15_Witness ==
    /\ h.pc = "envclose"
    /\ h.outcome.kind = "return"
    /\ ~h.terminated /\ ~h.errSet
    /\ Count(h.log, "env.step") = h.config.maxSteps
    /\ h.outcome.result.num_steps = h.config.maxSteps

(***************************************************************************)
(* Properties of parseAction and executeAction, checked under SpecParse.   *)
(***************************************************************************)
\* C16: for an action string that parseAction accepts, parseAction gives
\* the same name and arguments when the string has white space around it or
\* is wrapped in a code fence, with or without a language tag, the fence on
\* lines of its own or on the line of the action.  The source removes the
\* word characters that follow the opening fence, so a fence directly
\* followed by the action takes the name of the action with it: this fails.
C16_DecorationIsIgnored ==
    (parse.stage = "parsed" /\ parseAction(parse.base).ok) =>
        /\ parse.result.ok
        /\ parse.result.name = parseAction(parse.base).name
        /\ parse.result.args = parseAction(parse.base).args

Quotes == {"\"", "'"}

\* the positions of the commas of s that are outside every quoted string
\* and at bracket depth 0, a backslash inside a string escaping the
\* character after it
RECURSIVE TopLevelCommas(_, _, _, _)
TopLevelCommas(s, i, depth, quote) ==
    IF i > Len(s) THEN {}
    ELSE IF quote # ""
    THEN IF s[i] = "\\" THEN TopLevelCommas(s, i + 2, depth, quote)
         ELSE IF s[i] = quote THEN TopLevelCommas(s, i + 1, depth, "")
         ELSE TopLevelCommas(s, i + 1, depth, quote)
    ELSE IF s[i] \in Quotes THEN TopLevelCommas(s, i + 1, depth, s[i])
    ELSE IF s[i] \in {"(", "[", "{"} THEN TopLevelCommas(s, i + 1, depth + 1, "")
    ELSE IF s[i] \in {")", "]", "}"} THEN TopLevelCommas(s, i + 1, depth - 1, "")
    ELSE IF s[i] = "," /\ depth = 0
    THEN {i} \cup TopLevelCommas(s, i + 1, depth, "")
    ELSE TopLevelCommas(s, i + 1, depth, "")

\* C17: parseAction separates two arguments at a comma exactly when the
\* comma is outside every quoted string and outside all brackets, where an
\* escaped quote does not end a string and the closing quote does.  The
\* source takes every quote that follows a backslash for an escaped one,
\* also the closing quote of a string that ends in an escaped backslash:
\* this fails.
C17_CommaSplitsAtTopLevel ==
    (parse.stage = "parsed" /\ parse.result.ok) =>
        parse.result.splits = TopLevelCommas(parse.result.argsString, 1, 0, "")

\* the value the rules of C18 give a token
Coerced(t) ==
    IF IsQuoted(t)
    THEN StringValue(Unescape(Unescape(SubSeq(t, 2, Len(t) - 1), "\""), "'"))
    ELSE IF IsInteger(t)
    THEN NumberValue(Head(t) = "-", Decimal(Unsigned(t)), <<>>)
    ELSE IF IsFloat(t)
    THEN ParsedNumber(t)
    ELSE IF t \in {<<"t", "r", "u", "e">>, <<"T", "r", "u", "e">>}
    THEN LiteralValue("boolean", "true")
    ELSE IF t \in {<<"f", "a", "l", "s", "e">>, <<"F", "a", "l", "s", "e">>}
    THEN LiteralValue("boolean", "false")
    ELSE IF t \in {<<"n", "u", "l", "l">>, <<"N", "o", "n", "e">>}
    THEN LiteralValue("null", "null")
    ELSE StringValue(t)

\* C18: every argument is its token coerced by the first rule that matches:
\* quoted string (quotes removed, escaped quotes unescaped), integer, float,
\* boolean literal, null literal, else the token as a string; a quoted token
\* gives a string whatever its content looks like.
C18_TokenCoercion ==
    (parse.stage = "parsed" /\ parse.result.ok) =>
        /\ Len(parse.result.args) = Len(parse.result.tokens)
        /\ \A i \in 1..Len(parse.result.tokens) :
              /\ parse.result.args[i] = Coerced(parse.result.tokens[i])
              /\ IsQuoted(parse.result.tokens[i]) =>
                    parse.result.args[i].type = "string"

\* fill("in1", "00123") was parsed: the second argument is the string 00123
C18_Witness ==
    /\ parse.stage = "parsed"
    /\ parse.result.ok
    /\ parse.result.tokens =
          << <<"\"", "i", "n", "1", "\"">>, <<"\"", "0", "0", "1", "2", "3", "\"">> >>
    /\ parse.result.args[2] = StringValue(<<"0", "0", "1", "2", "3">>)

\* the 13 operations of the grammar with the least number of arguments of
\* each
GrammarMinimum ==
    [ goto |-> 1, click |-> 1, dblclick |-> 1, hover |-> 1,
      send_msg_to_user |-> 1, report_infeasible |-> 1, fill |-> 2, press |-> 2,
      scroll |-> 2, select_option |-> 2, go_back |-> 0, go_forward |-> 0,
      noop |-> 0 ]

\* the action string of parse is not a call, names no operation of the
\* grammar, or gives the operation too few arguments
BadAction ==
    \/ ~parse.result.ok
    \/ Join(parse.result.name) \notin DOMAIN GrammarMinimum
    \/ Len(parse.result.args) < GrammarMinimum[Join(parse.result.name)]

\* C19: executeAction raises, and invokes no operation of the page, when the
\* action string has not the shape name(args), when the name is none of the
\* 13 operations, or when the arguments are fewer than the operation needs;
\* every other action string gets its operation invoked.
C19_BadActionInvokesNothing ==
    parse.stage = "executed" =>
        IF BadAction
        THEN parse.exec.err # NoErr /\ ~parse.exec.invoked
        ELSE parse.exec.invoked

\* fill("in1") was executed: it raised for the missing argument and no
\* operation of the page was invoked
C19_Witness ==
    /\ parse.stage = "executed"
    /\ parse.result.ok
    /\ Join(parse.result.name) = "fill"
    /\ Len(parse.result.args) = 1
    /\ parse.exec.err = Err("Error", "fill requires 2 arguments")
    /\ ~parse.exec.invoked

(***************************************************************************)
(* Properties of extractObservation, checked under SpecObs.                *)
(***************************************************************************)
Flag(e, capture) ==
    CASE capture = "dom" -> e.useHtml
      [] capture = "axtree" -> e.useAxtree
      [] OTHER -> e.useScreenshot

Captured(obs, capture) ==
    CASE capture = "dom" -> obs.dom_object
      [] capture = "axtree" -> obs.axtree_object
      [] OTHER -> obs.screenshot

\* C20: a capture whose flag is false is not requested, extractObservation
\* does not raise because of it (if it raises, a request it did send was
\* rejected), and the observation has the neutral value for it: an empty
\* object for the snapshot and the accessibility tree, an empty buffer for
\* the screenshot; a capture whose flag is true is requested, unless marking
\* the elements failed before, and its value is in the observation.
C20_DisabledCaptureIsSkipped ==
    ret.call = "extractObservation" =>
        /\ ret.kind = "raise" => ret.trace.requests \cap ret.trace.rejected # {}
        /\ \A c \in Captures :
              IF Flag(env, c)
              THEN /\ "mark" \notin ret.trace.rejected => c \in ret.trace.requests
                   /\ ret.kind = "return" => Captured(ret.obs, c) = CaptureValue(c)
              ELSE /\ c \notin ret.trace.requests
                   /\ ret.kind = "return" => Captured(ret.obs, c) = NeutralValue(c)

\* the three captures are disabled and the browser would reject each of
\* them: none was requested and the observation has the three neutral values
C20_Witness ==
    /\ ret.call = "extractObservation"
    /\ ret.kind = "return"
    /\ ~env.useHtml /\ ~env.useAxtree /\ ~env.useScreenshot
    /\ ret.trace.rejected = Captures
    /\ ret.trace.requests = {"mark", "unmark"}
    /\ ret.obs.dom_object = "{}"
    /\ ret.obs.axtree_object = "{}"
    /\ ret.obs.screenshot = "Buffer(0)"

(***************************************************************************)
(* Properties of one run of extractObservation, checked under SpecCapture. *)
(***************************************************************************)
\* C21: when control is back with the caller of extractObservation, and so
\* with the caller of reset() or step(), no markers remain on the page,
\* whether an observation was returned or the extraction failed part-way.
\* The source has no finally around the captures: when a capture request
\* is rejected unmarkElements is never called, and this fails.
C21_NoMarkersAfterExtraction ==
    /\ ex.pc = "returned" => ~ex.markers
    /\ (ex.pc = "raised" /\ ex.rejected # {}) => ~ex.markers

\* the captures whose request was sent
Started == ex.inflight \cup ex.completed \cup ex.rejected

\* C30: the enabled captures are started together (at no time is one of
\* them started and another not), and while unmarkElements runs every
\* enabled capture has completed and no capture request is in flight.
C30_UnmarkAfterAllCaptures ==
    ex.pc # "none" =>
        /\ Started \in {{}, Enabled(env)}
        /\ ex.pc = "unmarkElements" =>
              /\ ex.inflight = {}
              /\ ex.completed = Enabled(env)
              /\ \A c \in Captures :
                    ex.values[c] = IF c \in Enabled(env) THEN CaptureValue(c)
                                   ELSE NeutralValue(c)

\* the three captures are enabled, each was answered, and unmarkElements
\* is running
C30_Witness ==
    /\ ex.pc = "unmarkElements"
    /\ Enabled(env) = Captures
    /\ ex.completed = Captures
    /\ ex.inflight = {}
    /\ ex.markers

(***************************************************************************)
(* Properties of the marking pass, checked under SpecMark.                 *)
(***************************************************************************)
\* b is a proper prefix of c
Under(c, b) == Len(c) > Len(b) /\ SubSeq(c, 1, Len(b)) = b

\* the child frames the marking pass is to mark: the attached,
\* script-enabled frames all of whose ancestors are such frames
RECURSIVE Markable(_, _)
Markable(pg, f) ==
    f = 1 \/ /\ pg.condition[f] \in {"ok", "sandbox allow-scripts"}
             /\ Markable(pg, pg.parent[f])

\* C22: after a marking pass in which no evaluation was rejected, no two
\* marked elements of the frame tree carry the same identifier, and every
\* element inside an attached, script-enabled child frame has an
\* identifier under the identifier of the frame element of that frame,
\* different from every identifier of the top-level document.  The mark
\* pass of extractObservation evaluates the script in the main frame only,
\* so elements of child frames get no identifier: this fails.
C22_IdentifiersScopedByFrame ==
    (ex.pc = "marked" /\ ex.rejects = {}) =>
        LET pg == ex.page
            marked == { el \in Elements(pg) : ex.bids[el] # <<>> }
        IN  /\ \A a, b \in marked : a # b => ex.bids[a] # ex.bids[b]
            /\ \A c \in Frames(pg) \ {1} :
                  Markable(pg, c) =>
                      \A el \in Elements(pg) :
                          el[1] = c =>
                              /\ Under(ex.bids[el], ex.bids[FrameElement(pg, c)])
                              /\ \A top \in Elements(pg) :
                                    top[1] = 1 => ex.bids[top] # ex.bids[el]

(***************************************************************************)
(* Properties of canonicalizeTaskName, checked under SpecCanon.            *)
(***************************************************************************)
\* C23: canonicalizeTaskName raises 'Task name cannot be empty' for a blank
\* reference; for any other reference it returns version.name, where a
\* reference that has a version is returned as it is, a name without
\* version gets the configured default version, and a legacy prefix
\* webclones. or browsergym/ and surrounding white space make no
\* difference.  The source takes only the first segment after webclones.,
\* so webclones.v2.omnizon-1 gives v2.v2: this fails.
C23_CanonicalForm ==
    canon.stage = "done" =>
        IF canon.core = <<"">>
        THEN canon.result = Thrown("Task name cannot be empty")
        ELSE canon.result =
                 Value(IF Len(canon.core) = 2 THEN canon.core
                       ELSE <<ConfiguredVersion(canon.taskVersion), canon.core[1]>>)

(***************************************************************************)
(* Properties of the chat transcript and of the observations, checked      *)
(* under SpecEnv.                                                          *)
(***************************************************************************)
\* the message a goal part is shown as
GoalMessage(part) ==
    Msg(IF part.type = "text" THEN "user" ELSE "user_image", part.text)

\* what a step is to append: the message of a send_msg_to_user or
\* report_infeasible that succeeded, then the message of the validation
Appended(e, r) ==
    (IF r.trace.executed /\ e.lastActionError = ""
     THEN IF r.trace.action = ActionSendMsg.str
          THEN <<Msg("assistant", ActionText(ActionSendMsg))>>
          ELSE IF r.trace.action = ActionInfeasible.str
          THEN <<Msg("infeasible", ActionText(ActionInfeasible))>>
          ELSE <<>>
     ELSE <<>>)
    \o (IF r.trace.validated /\ ~r.trace.valThrew /\ r.trace.valMessage # ""
        THEN <<Msg("user", r.trace.valMessage)>>
        ELSE <<>>)

\* C24: a reset() that returns leaves the transcript as the greeting
\* followed by one message per goal part, user for a text part and
\* user_image for an image part; a step() keeps every earlier message in
\* its place and appends only the assistant / infeasible message of a
\* successful send_msg_to_user / report_infeasible and then the user message
\* of the validation, which is in the observation the step returns.
C24_TranscriptAppendOnly ==
    [][ /\ (CallMade("reset") /\ ret'.kind = "return") =>
              /\ env'.chatMessages =
                     <<Msg("assistant", Greeting)>>
                         \o [i \in 1..Len(env'.goalObject) |->
                                GoalMessage(env'.goalObject[i])]
              /\ ret'.obs.chat_messages = env'.chatMessages
        /\ CallMade("step") =>
              /\ env'.chatMessages = env.chatMessages \o Appended(env', ret')
              /\ ret'.kind = "return" => ret'.obs.chat_messages = env'.chatMessages
      ]_vars

\* after a goal of a text and an image part, a step sent a message to the
\* user and the validation answered: five messages, in this order
C24_Witness ==
    /\ ret.call = "step"
    /\ ret.kind = "return"
    /\ Len(env.chatMessages) = 5
    /\ [i \in 1..5 |-> env.chatMessages[i].role]
           = <<"assistant", "user", "user_image", "assistant", "user">>
    /\ ret.obs.chat_messages = env.chatMessages

\* C25: an observation that reset() or step() returned keeps its
\* chat_messages, last_action and last_action_error whatever the
\* environment does afterwards.  The chat_messages of the source is the
\* transcript array itself, not a copy, so the messages later steps push
\* show up in the observation kept: this fails.
C25_ObservationIsSnapshot ==
    held.kept =>
        /\ Read(held, env).chat_messages = held.obs.chat_messages
        /\ Read(held, env).last_action = held.obs.last_action
        /\ Read(held, env).last_action_error = held.obs.last_action_error

C27_GetActionSeesPreprocessed ==
    h.config.hasPreprocessor =>
        \A i \in 1..Len(h.log) :
            h.log[i] = "agent.getAction" =>
                i > 1 /\ h.log[i - 1] = "agent.obsPreprocessor"

\* the place of each thing step() does in the order the claim gives
Rank(op) ==
    CASE op = "record" -> 1
      [] op = "execute" -> 2
      [] op = "wait" -> 3
      [] op = "check" -> 4
      [] op = "validate" -> 5
      [] op = "extract" -> 6

Entries(op) == { i \in 1..Len(inStep.log) : inStep.log[i].op = op }

Finished == inStep.pc \in {"returned", "raised"}

\* C28: a step() past its precondition records the action, executes it,
\* waits once on every tab that was open when the waiting began (a wait that
\* fails does not end the step), re-resolves the active tab, calls
\* task.validate exactly once, with the tab just resolved, which is open, and
\* the transcript as the action left it, and extracts the observation once
\* validate has returned; nothing is done out of this order
C28_StepOrder ==
    inStep.pc # "none" =>
        LET log == inStep.log
        IN  /\ \A i, j \in 1..Len(log) :
                  i < j => \/ Rank(log[i].op) < Rank(log[j].op)
                           \/ log[i].op = "wait" /\ log[j].op = "wait"
            /\ \A op \in {"record", "execute", "check", "validate", "extract"} :
                  Cardinality(Entries(op)) <= 1
            /\ log[1].op = "record"
            /\ env.lastAction = inStep.action.str
            /\ inStep.pc \in {"check", "validate", "extract"} \cup {"returned", "raised"} =>
                  /\ Entries("execute") # {}
                  /\ \A p \in inStep.snapshot :
                        Cardinality({ i \in Entries("wait") : log[i].page = p }) = 1
                  /\ \A i \in Entries("wait") : log[i].page \in inStep.snapshot
            /\ Finished =>
                  /\ Cardinality(Entries("check")) = 1
                  /\ Cardinality(Entries("validate")) = 1
                  /\ world.validates = 1
            /\ \A i \in Entries("validate") :
                  /\ log[i].open
                  /\ log[i].page = log[i - 1].page
                  /\ log[i - 1].op = "check"
                  /\ inStep.action = ActionSendMsg /\ ~log[2].failed =>
                        log[i].chat # <<>>
                        /\ Last(log[i].chat) = Msg("assistant", ActionText(ActionSendMsg))
            /\ inStep.pc = "returned" =>
                  /\ Entries("extract") # {}
                  /\ ~log[Len(log) - 1].failed
            /\ Entries("extract") # {} => ~log[Len(log) - 1].failed

\* a step that returned although a wait failed on one of several tabs and
\* the active tab, closed meanwhile, had to be resolved anew
C28_Witness ==
    /\ inStep.pc = "returned"
    /\ Cardinality(inStep.snapshot) >= 2
    /\ \E i \in Entries("wait") : inStep.log[i].failed
    /\ \E i \in Entries("check") : inStep.log[i].page # inStep.log[1].page
    /\ \E i \in Entries("validate") : Len(inStep.log[i].chat) > 2

\* C29: the observation step(a) returns has a as its last_action and a
\* last_action_error that is non-empty exactly when executing a failed in
\* this step, whatever the step before left; the observation reset() returns
\* has both empty, also after an episode whose last action failed
C29_LastActionFields ==
    ret.kind = "return" =>
        /\ ret.call = "step" =>
              /\ ret.obs.last_action = ret.trace.action
              /\ ret.obs.last_action_error # "" <=> ret.trace.failed
        /\ ret.call = "reset" =>
              /\ ret.obs.last_action = ""
              /\ ret.obs.last_action_error = ""

\* a step whose action succeeded, returned to a caller that holds the
\* observation of an earlier step of a different action, which had failed
C29_Witness ==
    /\ held.kept
    /\ held.obs.last_action_error # ""
    /\ ret.call = "step"
    /\ ret.kind = "return"
    /\ ~ret.trace.failed
    /\ ret.obs.last_action_error = ""
    /\ ret.obs.last_action # held.obs.last_action

\* the frames in which the marking pass evaluated, or tried to evaluate, the
\* marking script
RECURSIVE Visited(_)
Visited(f) ==
    \/ f = 1
    \/ /\ ex.by = "preExtract"
       /\ ex.page.condition[f] \in {"ok", "sandbox allow-scripts"}
       /\ ex.bids[FrameElement(ex.page, f)] # <<>>
       /\ ValidFrameBid(ex.bids[FrameElement(ex.page, f)])
       /\ Visited(ex.page.parent[f])

\* C31: a marking pass that comes back without an error has left no
\* attached, script-enabled child frame of a frame it went through with a
\* frame element that carries no identifier: such a frame makes the pass
\* fail with a MarkingError
C31_UnmarkedChildFrameIsFatal ==
    ex.pc = "marked" =>
        \A c \in Frames(ex.page) \ {1} :
            /\ ex.page.condition[c] \in {"ok", "sandbox allow-scripts"}
            /\ Visited(ex.page.parent[c])
            => ex.bids[FrameElement(ex.page, c)] # <<>>

\* a text holds the embedded identifier
RECURSIVE Embeds(_)
Embeds(str) ==
    /\ Len(str) >= Len(BidPrefix)
    /\ \/ SubSeq(str, 1, Len(BidPrefix)) = BidPrefix
       \/ Embeds(Tail(str))

\* C32: in the tree that is returned the node of a marked element has the
\* bid of the element as its identifier, its role description and its
\* description are the texts they were before the marking (absent when that
\* text was empty), and neither holds the embedded identifier
C32_IdentifierStrippedFromTexts ==
    ex.pc \in {"tree", "merged"} =>
        /\ ex.node.browsergym_id = ex.bid
        /\ ex.node.roledescription = Original(ex.t)
        /\ ex.node.description = Original(ex.u)
        /\ ~Embeds(ex.node.roledescription.value)
        /\ ~Embeds(ex.node.description.value)

\* C33: the focused_element_bid of an observation is the bid the element
\* that has the focus, which is not a frame, was given in the marking pass of
\* that observation, and so is empty only when that element was not marked
C33_FocusedBidIsTheMarkedOne ==
    ex.pc = "observed" => ex.focused_element_bid = ex.bids[ex.focus]

\* C34: what getTasks returns are canonical ids <<version, name>> of tasks
\* of the version asked for, each accepted by splitTaskReference: with a type
\* the ids of all its tasks, with a type and an id sampleTasks copies of the
\* id of that task; it raises 'not found' exactly when that task is not there
C34_GetTasksReturnsCanonicalIds ==
    canon.stage = "listed" /\ canon.taskVersion \in VersionDirs =>
        LET r == canon.result
            names == Catalog(canon.taskVersion)
            typed == SelectSeq(names, LAMBDA n : StartsWithType(n, canon.taskType))
            specific == TypeDashId(canon.taskType, canon.taskId)
        IN  /\ r.ok =>
                  \A i \in 1..Len(r.value) :
                     /\ r.value[i][1] = canon.taskVersion
                     /\ r.value[i][2] \in Range(names)
                     /\ splitTaskReference(r.value[i]).ok
            /\ canon.taskType # "" /\ canon.taskId = 0 =>
                  /\ r.ok
                  /\ r.value = [i \in 1..Len(typed) |-> <<canon.taskVersion, typed[i]>>]
            /\ canon.taskType # "" /\ canon.taskId # 0 =>
                  IF specific \in Range(names)
                  THEN /\ r.ok
                       /\ r.value = [i \in 1..canon.sampleTasks |->
                                        <<canon.taskVersion, specific>>]
                  ELSE ~r.ok /\ r.error = "Task not found in version"

\* C35: a step() called when no successful reset() is in effect (as the
\* first call, right after close(), or right after a reset() that raised)
\* raises the precondition error, runs no page operation and does not call
\* the task
C35_StepNeedsSuccessfulReset ==
    [][ /\ calls' = calls + 1
        /\ ret'.call = "step"
        /\ \/ ret.call \in {"none", "close"}
           \/ ret.call = "reset" /\ ret.kind = "raise"
        => /\ ret'.kind = "raise"
           /\ ret'.error = NotInitializedMsg
           /\ ~ret'.trace.executed
           /\ world'.pageOps = world.pageOps
           /\ world'.validates = world.validates ]_vars

\* C36: the task reset() stored is torn down once: the call that follows a
\* close(), be it another close() or a reset(), does not invoke the teardown
\* of the task that close() has torn down
C36_TeardownOnce ==
    [][ /\ calls' = calls + 1
        /\ ret.call = "close"
        /\ ret'.call \in {"close", "reset"}
        => "teardown" \notin ret'.trace.attempted ]_vars

\* C37: the harness does not call agent.getAction once it has called
\* agent.close(): the agent is closed after the last task of the batch
C37_NoGetActionAfterClose ==
    [][ h.pc = "agent" /\ "agent.getAction" \in Range(h'.log) /\ h' # h
        => ~h.agentClosed ]_vars

\* C38: the captures of an observation are taken from the tab it reports as
\* the active one: the capture session on which they are sent is attached to
\* that tab
C38_CapturesFromActiveTab ==
    /\ ret.kind = "return"
    /\ ret.obs.defined
    /\ Enabled(env) # {}
    => world.cdpPage = ret.obs.active_page

\* C39: of step() calls that overlap, each returns an observation with its
\* own action as last_action and with a last_action_error that is there
\* exactly when its own action failed
C39_OverlappingStepsKeepTheirOwn ==
    inStep.pc = "race" =>
        \A i \in 1..Callers :
            inStep.call[i].pc = "returned" =>
                /\ inStep.call[i].obs.last_action = inStep.call[i].action.str
                /\ inStep.call[i].obs.last_action_error # "" <=> inStep.call[i].failed

\* the reference names a task file of its version, and the file is valid
ExistingTask(ref, valid) ==
    /\ valid
    /\ splitTaskReference(ref).ok
    /\ ConfigExists(splitTaskReference(ref).value[1], splitTaskReference(ref).value[2])

\* C40: for the canonical id of an existing task runSingleTask builds the task
\* for exactly that version and name, and so gets as far as env.reset
C40_ConstructsTheReferencedTask ==
    canon.stage = "runSingleTask" /\ ExistingTask(canon.ref, canon.valid) =>
        /\ canon.result.ok
        /\ canon.result.value.version = <<splitTaskReference(canon.ref).value[1]>>
        /\ canon.result.value.task_name = splitTaskReference(canon.ref).value[2]
        /\ canon.result.value.canonical_id =
              canon.result.value.version \o canon.result.value.task_name

====
